---- MODULE Spec2Model ----
(***************************************************************************)
(* Model of the oil-price backend: the event/price aligner                 *)
(* (src/src/event_integration.py) and the HTTP handlers                    *)
(* (src/backend/app.py, src/backend/utils.py).                              *)
(*                                                                         *)
(* Values.  A date is a day number.  A cell of a date column is a pair:    *)
(* <<"ts", d>> a pandas Timestamp, <<"str", d>> a string that parses to    *)
(* day d, <<"bad", 0>> a string that does not parse, <<"nat", 0>> a        *)
(* missing date (None / NaN / NaT).  A float is a reduced fraction         *)
(* <<num, den>> with den > 0; NaN is <<0, 0>>.  A standard deviation is    *)
(* represented by its square (the sample variance), which determines it.   *)
(* Tables built by the program carry a RangeIndex, so a row is identified  *)
(* by its position.                                                        *)
(***************************************************************************)
EXTENDS Integers, Sequences, FiniteSets, TLC

VARIABLES
    pc,             \* "call" before align_events_with_prices runs, "done" after
    price_df,       \* the caller's price table
    event_df,       \* the caller's event table
    window_days,    \* the window_days argument
    outcome,        \* "none", "returned", "EventIntegrationError", "ValueError"
    event_analysis, \* the returned table (<< >> when nothing is returned)
    phase,          \* the server: "off", "startup" (load_data not yet run),
                    \* "serving" (waiting for a request), "replied"
    price_loaded,   \* the price table load_data holds at line 90
    event_loaded,   \* the event table load_data holds at line 122
    load_fails,     \* whether load_data meets an unexpected exception
    cache,          \* _data_cache: a function from its keys to tables
    request,        \* the request last handled
    response,       \* the response sent for it
    price_files,    \* the files at the candidate price paths, in list order
    event_files,    \* the files at the candidate event paths, in list order
    load_log,       \* what load_data logged about each path it tried
    filter_pc,      \* "call" before the date filter is applied, "done" after
    filter_table,   \* the table handed to apply_date_filter_to_dataframe
    filter_column,  \* its date_column argument
    filter_start,   \* its start_date argument
    filter_end,     \* its end_date argument
    filter_once,    \* the outcome of filtering the table
    filter_twice,   \* the outcome of filtering that result again
    analysis_pc,    \* one call of a function of the analysis package: "idle",
                    \* "call" before it runs, "done" after; in
                    \* run_analysis_pipeline, the step about to run
    analysis_input, \* the arguments of that call
    analysis_output,\* what the call returned or raised; in
                    \* run_analysis_pipeline, the results dict
    step_log        \* run_analysis_pipeline: the outcome of each step run

alignVars == <<pc, price_df, event_df, window_days, outcome, event_analysis>>

apiVars == <<phase, price_loaded, event_loaded, load_fails, cache, request, response>>

fileVars == <<price_files, event_files, load_log>>

filterVars == <<filter_pc, filter_table, filter_column, filter_start, filter_end,
                filter_once, filter_twice>>

analysisVars == <<analysis_pc, analysis_input, analysis_output, step_log>>

vars == <<alignVars, apiVars, fileVars, filterVars, analysisVars>>

----------------------------------------------------------------------------
(* Bounds of the model *)

MaxDate == 4
MaxPriceRows == 4
MaxEvents == 2
MaxWindow == 2
MaxApiDate == 2
MaxCacheRows == 2
MaxCacheEvents == 2
MaxFileRows == 2
MaxFileDate == 1
MaxStatEvents == 2

Dates == 0 .. MaxDate

----------------------------------------------------------------------------
(* Floats as fractions *)

NaN == <<0, 0>>

IsNaN(x) == x[2] = 0

Num(n) == <<n, 1>>

Abs(n) == IF n < 0 THEN -n ELSE n

RECURSIVE GCD(_, _)
GCD(a, b) == IF b = 0 THEN a ELSE GCD(b, a % b)

Norm(n, d) ==
    IF d = 0 THEN NaN
    ELSE LET g == GCD(Abs(n), Abs(d))
             s == IF d < 0 THEN -1 ELSE 1
         IN <<(s * n) \div g, (s * d) \div g>>

FSub(a, b) == IF IsNaN(a) \/ IsNaN(b) THEN NaN
              ELSE Norm(a[1] * b[2] - b[1] * a[2], a[2] * b[2])

FMul(a, b) == IF IsNaN(a) \/ IsNaN(b) THEN NaN
              ELSE Norm(a[1] * b[1], a[2] * b[2])

\* numpy float division; the only caller guards the zero divisor
FDiv(a, b) == IF IsNaN(a) \/ IsNaN(b) \/ b[1] = 0 THEN NaN
              ELSE Norm(a[1] * b[2], a[2] * b[1])

\* a != 0 on floats: NaN != 0 is True
FNonZero(a) == IsNaN(a) \/ a[1] # 0

----------------------------------------------------------------------------
(* pandas Series reductions (skipna=True) over a sequence of price cells *)

NotNaN(x) == ~IsNaN(x)

DropNaN(s) == SelectSeq(s, NotNaN)

RECURSIVE SumNum(_)
SumNum(s) == IF s = << >> THEN 0 ELSE Head(s)[1] + SumNum(Tail(s))

RECURSIVE SumSq(_)
SumSq(s) == IF s = << >> THEN 0 ELSE Head(s)[1] * Head(s)[1] + SumSq(Tail(s))

RECURSIVE MaxNum(_)
MaxNum(s) == IF Len(s) = 1 THEN Head(s)[1]
             ELSE LET m == MaxNum(Tail(s))
                  IN IF Head(s)[1] > m THEN Head(s)[1] ELSE m

RECURSIVE MinNum(_)
MinNum(s) == IF Len(s) = 1 THEN Head(s)[1]
             ELSE LET m == MinNum(Tail(s))
                  IN IF Head(s)[1] < m THEN Head(s)[1] ELSE m

\* Series.mean(): the mean of the non-missing values, NaN when there is none
SeriesMean(s) ==
    LET v == DropNaN(s)
    IN IF v = << >> THEN NaN ELSE Norm(SumNum(v), Len(v))

SeriesMax(s) ==
    LET v == DropNaN(s)
    IN IF v = << >> THEN NaN ELSE Num(MaxNum(v))

SeriesMin(s) ==
    LET v == DropNaN(s)
    IN IF v = << >> THEN NaN ELSE Num(MinNum(v))

\* Series.std(): sample standard deviation (ddof=1), NaN below two values;
\* represented by its square
SeriesStd(s) ==
    LET v == DropNaN(s)
        n == Len(v)
    IN IF n < 2 THEN NaN
       ELSE Norm(n * SumSq(v) - SumNum(v) * SumNum(v), n * (n - 1))

----------------------------------------------------------------------------
(* Date cells *)

NaT == <<"nat", 0>>

Timestamp(d) == <<"ts", d>>

DateString(d) == <<"str", d>>

BadString == <<"bad", 0>>

IsNaT(c) == c[1] = "nat"

\* pd.to_datetime on one cell: a Timestamp stays, a parseable string becomes
\* the Timestamp of its day, a missing value becomes NaT
to_datetime_cell(c) ==
    IF c[1] = "ts" THEN c
    ELSE IF c[1] = "str" THEN Timestamp(c[2])
    ELSE NaT

\* pd.to_datetime on a column raises when one cell does not parse
to_datetime_raises(rows) == \E i \in 1 .. Len(rows) : rows[i].event_date[1] = "bad"

----------------------------------------------------------------------------
(* align_events_with_prices *)

DerivedFields == {"price_before", "price_after", "price_change", "price_change_pct",
                  "max_price_window", "min_price_window", "volatility_window"}

\* lines 86-92: the seven metric columns start as NaN
InitMetrics == [f \in DerivedFields |-> NaN]

PriceColumn(rows) == [i \in 1 .. Len(rows) |-> rows[i].price]

\* price_df[(index >= lo) & (index <= hi)][price_column], with either end
\* open or closed
PricesBetween(rows, lo, loClosed, hi, hiClosed) ==
    LET In(r) == /\ IF loClosed THEN r.date >= lo ELSE r.date > lo
                 /\ IF hiClosed THEN r.date <= hi ELSE r.date < hi
    IN PriceColumn(SelectSeq(rows, In))

\* a bug that closes the upper end of the before-subset at the event date
before_prices_closed(rows, d, W) == PricesBetween(rows, d - W, TRUE, d, TRUE)

window_prices(rows, d, W) == PricesBetween(rows, d - W, TRUE, d + W, TRUE)

before_prices(rows, d, W) == PricesBetween(rows, d - W, TRUE, d, FALSE)

after_prices(rows, d, W) == PricesBetween(rows, d, FALSE, d + W, TRUE)

\* a bug that subtracts the wrong way round
price_change_swapped(price_before, price_after) == FSub(price_before, price_after)

price_change_of(price_before, price_after) == FSub(price_after, price_before)

price_change_pct_of(price_before, price_after) ==
    IF FNonZero(price_before)
    THEN FMul(FDiv(FSub(price_after, price_before), price_before), Num(100))
    ELSE NaN

\* a bug that accepts an event when only one side of the window has prices
RowMetricsEitherSide(rows, d, W) ==
    LET wp == window_prices(rows, d, W)
        bp == before_prices(rows, d, W)
        ap == after_prices(rows, d, W)
        price_before == SeriesMean(bp)
        price_after == SeriesMean(ap)
    IN IF Len(bp) > 0 \/ Len(ap) > 0
       THEN [price_before |-> price_before,
             price_after |-> price_after,
             price_change |-> price_change_of(price_before, price_after),
             price_change_pct |-> price_change_pct_of(price_before, price_after),
             max_price_window |-> SeriesMax(wp),
             min_price_window |-> SeriesMin(wp),
             volatility_window |-> SeriesStd(wp)]
       ELSE InitMetrics

\* lines 127-146: the metrics written for one event with a date
RowMetrics(rows, d, W) ==
    LET wp == window_prices(rows, d, W)
        bp == before_prices(rows, d, W)
        ap == after_prices(rows, d, W)
        price_before == SeriesMean(bp)
        price_after == SeriesMean(ap)
    IN IF Len(wp) = 0 THEN InitMetrics
       ELSE IF Len(bp) > 0 /\ Len(ap) > 0
       THEN [price_before |-> price_before,
             price_after |-> price_after,
             price_change |-> price_change_of(price_before, price_after),
             price_change_pct |-> price_change_pct_of(price_before, price_after),
             max_price_window |-> SeriesMax(wp),
             min_price_window |-> SeriesMin(wp),
             volatility_window |-> SeriesStd(wp)]
       ELSE InitMetrics

\* lines 96-150: one iteration of the loop over the converted copy
AlignRow(rows, row, W) ==
    IF IsNaT(row.event_date) THEN row @@ InitMetrics
    ELSE row @@ RowMetrics(rows, row.event_date[2], W)

\* line 81: the date column of the copy is converted
ConvertDates(erows) ==
    [i \in 1 .. Len(erows) |->
        [erows[i] EXCEPT !.event_date = to_datetime_cell(erows[i].event_date)]]

\* a bug that drops the rows it skips
AlignRowsDropSkipped(rows, erows, W) ==
    LET Dated(r) == ~IsNaT(r.event_date)
        kept == SelectSeq(erows, Dated)
    IN [i \in 1 .. Len(kept) |-> AlignRow(rows, kept[i], W)]

\* lines 96-153: the loop visits every row of the copy in order
AlignRows(rows, erows, W) ==
    [i \in 1 .. Len(erows) |-> AlignRow(rows, erows[i], W)]

\* the outcome of the input validation of lines 58-74, "ok" when it passes
ValidateInputs(p, e, W) ==
    IF p.isNone \/ p.rows = << >> THEN "EventIntegrationError"
    ELSE IF e.isNone \/ e.rows = << >> THEN "EventIntegrationError"
    ELSE IF "price" \notin p.columns THEN "EventIntegrationError"
    ELSE IF "event_date" \notin e.columns THEN "EventIntegrationError"
    ELSE IF W <= 0 THEN "ValueError"
    ELSE IF ~p.datetimeIndex THEN "EventIntegrationError"
    ELSE "ok"

\* the whole function: [outcome, table]
align_events_with_prices(p, e, W) ==
    LET v == ValidateInputs(p, e, W)
    IN IF v # "ok" THEN [outcome |-> v, table |-> << >>]
       ELSE IF to_datetime_raises(e.rows)
       THEN [outcome |-> "EventIntegrationError", table |-> << >>]
       ELSE [outcome |-> "returned",
             table |-> AlignRows(p.rows, ConvertDates(e.rows), W)]

\* a bug of line 77: without .copy() the conversion and the derived columns
\* are written to the caller's event table
InputsAfterAlignWithoutCopy(p, e, W) ==
    IF ValidateInputs(p, e, W) # "ok" \/ to_datetime_raises(e.rows)
    THEN [price_df |-> p, event_df |-> e]
    ELSE [price_df |-> p,
          event_df |-> [e EXCEPT !.rows = AlignRows(p.rows, ConvertDates(e.rows), W),
                                 !.columns = @ \cup DerivedFields]]

\* the caller's two tables after the call: every write of lines 77-146 goes
\* to event_analysis, the copy made at line 77, and price_df is only read
InputsAfterAlign(p, e, W) == [price_df |-> p, event_df |-> e]

----------------------------------------------------------------------------
(* Inputs of the aligner *)

RECURSIVE SortedSeq(_)
SortedSeq(S) ==
    IF S = {} THEN << >>
    ELSE LET m == CHOOSE x \in S : \A y \in S : x <= y
         IN <<m>> \o SortedSeq(S \ {m})

\* price tables as a date-keyed CSV gives them: ascending unique dates, one
\* price cell per date
PriceRowSeqs(cells) ==
    UNION {{[i \in 1 .. Cardinality(S) |-> [date |-> SortedSeq(S)[i],
                                            price |-> f[SortedSeq(S)[i]]]] :
                f \in [S -> cells]} :
             S \in {T \in SUBSET Dates : Cardinality(T) <= MaxPriceRows}}

PriceFrame(rows) ==
    [isNone |-> FALSE, datetimeIndex |-> TRUE, columns |-> {"price"}, rows |-> rows]

NonePrice ==
    [isNone |-> TRUE, datetimeIndex |-> FALSE, columns |-> {}, rows |-> << >>]

\* the well-formed frames, and the ill-formed ones of lines 58-74: None, an
\* empty frame, a frame whose price column has another name, a frame with a
\* plain index
PriceTables(cells) ==
    {PriceFrame(s) : s \in PriceRowSeqs(cells)}
    \cup {NonePrice}
    \cup {[PriceFrame(s) EXCEPT !.columns = {"Price"}] :
            s \in {t \in PriceRowSeqs(cells) : Len(t) = 1}}
    \cup {[PriceFrame(s) EXCEPT !.datetimeIndex = FALSE] :
            s \in {t \in PriceRowSeqs(cells) : Len(t) = 1}}

DatetimeCells == {NaT} \cup {Timestamp(d) : d \in Dates}

ObjectCells == {NaT, BadString} \cup {DateString(d) : d \in Dates}

\* an event row: id stands for the descriptive columns of the row
EventRow(i, c) == [id |-> i, event_date |-> c]

EventRowSeqs(cells, maxLen) ==
    UNION {{[i \in 1 .. n |-> EventRow(i, cs[i])] : cs \in [1 .. n -> cells]} :
             n \in 0 .. maxLen}

EventFrame(rows) == [isNone |-> FALSE, columns |-> {"id", "event_date"}, rows |-> rows]

NoneEvents == [isNone |-> TRUE, columns |-> {}, rows |-> << >>]

\* event tables whose date column is datetime64 or object (strings), and the
\* ill-formed ones: None, an empty frame, a frame with no event_date column
EventTables ==
    {EventFrame(s) : s \in EventRowSeqs(DatetimeCells, MaxEvents)
                          \cup EventRowSeqs(ObjectCells, MaxEvents)}
    \cup {NoneEvents}
    \cup {[EventFrame(s) EXCEPT !.columns = {"id", "date"}] :
            s \in {t \in EventRowSeqs(DatetimeCells, 1) : Len(t) = 1}}

SingleEventTables == {EventFrame(s) : s \in EventRowSeqs(DatetimeCells, 1)}

WindowDays == 0 .. MaxWindow

----------------------------------------------------------------------------
(* backend/utils.py *)

\* a query parameter: None when absent, else a string: empty, a date in
\* YYYY-MM-DD form (DateString), or any other text (BadString)
Absent == <<"absent", 0>>

EmptyString == <<"empty", 0>>

\* truthiness of a query parameter: None and "" are falsy
Truthy(s) == s[1] \in {"str", "bad"}

\* no bound: the None of validate_date_range's result
NoBound == <<"none", 0>>

Ok(v) == [raise |-> "none", msg |-> << >>, value |-> v]

Raise(kind, m) == [raise |-> kind, msg |-> m, value |-> << >>]

validate_date_string(date_string, parameter_name) ==
    IF ~Truthy(date_string)
    THEN Raise("ValidationError", <<"must be a non-empty string", parameter_name>>)
    ELSE IF date_string[1] = "str" THEN Ok(Timestamp(date_string[2]))
    ELSE Raise("ValidationError", <<"Invalid format", parameter_name, date_string>>)

\* a bug that lets equal bounds fail too
validate_date_range_strict(start_date, end_date) ==
    LET s == IF Truthy(start_date) THEN validate_date_string(start_date, "start_date")
             ELSE Ok(NoBound)
        e == IF Truthy(end_date) THEN validate_date_string(end_date, "end_date")
             ELSE Ok(NoBound)
    IN IF s.raise # "none" THEN s
       ELSE IF e.raise # "none" THEN e
       ELSE IF s.value # NoBound /\ e.value # NoBound /\ s.value[2] >= e.value[2]
       THEN Raise("ValidationError",
                  <<"start_date must be less than or equal to end_date",
                    start_date, end_date>>)
       ELSE Ok(<<s.value, e.value>>)

validate_date_range(start_date, end_date) ==
    LET s == IF Truthy(start_date) THEN validate_date_string(start_date, "start_date")
             ELSE Ok(NoBound)
        e == IF Truthy(end_date) THEN validate_date_string(end_date, "end_date")
             ELSE Ok(NoBound)
    IN IF s.raise # "none" THEN s
       ELSE IF e.raise # "none" THEN e
       ELSE IF s.value # NoBound /\ e.value # NoBound /\ s.value[2] > e.value[2]
       THEN Raise("ValidationError",
                  <<"start_date must be less than or equal to end_date",
                    start_date, end_date>>)
       ELSE Ok(<<s.value, e.value>>)

\* a missing categorical filter (None); "" is the empty string
NoFilter == "<none>"

FilterGiven(v) == v # NoFilter /\ v # ""

InSeq(x, seq) == \E i \in 1 .. Len(seq) : seq[i] = x

\* a bug that accepts any value
validate_filter_value_lenient(filter_value, allowed_values, filter_name) ==
    Ok(filter_value)

validate_filter_value(filter_value, allowed_values, filter_name) ==
    IF ~FilterGiven(filter_value) THEN Ok(filter_value)
    ELSE IF ~InSeq(filter_value, allowed_values)
    THEN Raise("ValidationError",
               <<"Invalid filter value", filter_name, filter_value,
                 "Allowed values", allowed_values>>)
    ELSE Ok(filter_value)

create_error_response(error_message, status_code, error_type) ==
    [body |-> [error |-> error_message,
               error_type |-> error_type,
               status_code |-> status_code],
     status_code |-> status_code]

create_success_response(data, status_code) ==
    [data |-> data, status |-> "success", status_code |-> status_code]

\* a bug that builds the envelope with the default status_code
ErrorReplyDefaultStatus(error_message, status_code, error_type) ==
    [http |-> status_code,
     body |-> create_error_response(error_message, 400, error_type).body]

\* return jsonify(error_response), status_code
ErrorReply(error_message, status_code, error_type) ==
    LET r == create_error_response(error_message, status_code, error_type)
    IN [http |-> r.status_code, body |-> r.body]

\* return jsonify(success_response), 200
SuccessReply(data) == [http |-> 200, body |-> create_success_response(data, 200)]

GenericMessage == <<"An internal server error occurred while processing your request.">>

\* the date of row r in the filtered series: the index of a price table, the
\* named column of an event table
IsStringCell(c) == c[1] \in {"str", "bad"}

\* Timestamp comparisons; a comparison with NaT is False
CellGE(c, bound) == c[1] = "ts" /\ c[2] >= bound[2]

CellLE(c, bound) == c[1] = "ts" /\ c[2] <= bound[2]

\* a bug of the index filter: the boolean array of the unfiltered index is
\* applied by position to the rows left by the start bound
FilterByIndexMaskByPosition(frame, start_date, end_date) ==
    LET rows == frame.rows
        GE(r) == r.date >= start_date[2]
        left == IF start_date # NoBound THEN SelectSeq(rows, GE) ELSE rows
        Keep(j) == j <= Len(rows) /\ rows[j].date <= end_date[2]
        picked == {j \in 1 .. Len(left) : Keep(j)}
    IN IF (start_date # NoBound \/ end_date # NoBound) /\ ~frame.datetimeIndex
       THEN Raise("TypeError", <<"invalid comparison">>)
       ELSE IF end_date = NoBound THEN Ok([frame EXCEPT !.rows = left])
       ELSE Ok([frame EXCEPT !.rows =
                   [k \in 1 .. Cardinality(picked) |->
                       left[CHOOSE j \in picked :
                              Cardinality({x \in picked : x < j}) = k - 1]]])

\* date_column == 'index': date_series is the index of the unfiltered copy and
\* each comparison yields a plain boolean array of its length, which indexes
\* the frame only when the frame still has that many rows
FilterByIndex(frame, start_date, end_date) ==
    LET rows == frame.rows
        GE(r) == r.date >= start_date[2]
        LE(r) == r.date <= end_date[2]
        afterStart == IF start_date # NoBound THEN SelectSeq(rows, GE) ELSE rows
    IN IF (start_date # NoBound \/ end_date # NoBound) /\ ~frame.datetimeIndex
       THEN Raise("TypeError", <<"invalid comparison">>)
       ELSE IF end_date = NoBound THEN Ok([frame EXCEPT !.rows = afterStart])
       ELSE IF Len(afterStart) # Len(rows)
       THEN Raise("ValueError", <<"Item wrong length", Len(rows), Len(afterStart)>>)
       ELSE Ok([frame EXCEPT !.rows = SelectSeq(afterStart, LE)])

\* a bug of the column filter: the end bound is exclusive
FilterByColumnEndExclusive(frame, date_column, start_date, end_date) ==
    LET rows == frame.rows
        GE(r) == CellGE(r[date_column], start_date)
        LT(r) == CellLE(r[date_column], end_date) /\ r[date_column][2] # end_date[2]
        strings == \E i \in 1 .. Len(rows) : IsStringCell(rows[i][date_column])
        afterStart == IF start_date # NoBound THEN SelectSeq(rows, GE) ELSE rows
    IN IF date_column \notin frame.columns
       THEN Raise("ValidationError", <<"Date column not found", date_column>>)
       ELSE IF (start_date # NoBound \/ end_date # NoBound) /\ strings
       THEN Raise("TypeError", <<"not supported between str and Timestamp">>)
       ELSE IF end_date = NoBound THEN Ok([frame EXCEPT !.rows = afterStart])
       ELSE Ok([frame EXCEPT !.rows = SelectSeq(afterStart, LT)])

\* date_column names a column: date_series is a Series of the unfiltered copy,
\* each comparison yields a boolean Series that pandas aligns on the row labels
FilterByColumn(frame, date_column, start_date, end_date) ==
    LET rows == frame.rows
        GE(r) == CellGE(r[date_column], start_date)
        LE(r) == CellLE(r[date_column], end_date)
        strings == \E i \in 1 .. Len(rows) : IsStringCell(rows[i][date_column])
        afterStart == IF start_date # NoBound THEN SelectSeq(rows, GE) ELSE rows
    IN IF date_column \notin frame.columns
       THEN Raise("ValidationError", <<"Date column not found", date_column>>)
       ELSE IF (start_date # NoBound \/ end_date # NoBound) /\ strings
       THEN Raise("TypeError", <<"not supported between str and Timestamp">>)
       ELSE IF end_date = NoBound THEN Ok([frame EXCEPT !.rows = afterStart])
       ELSE Ok([frame EXCEPT !.rows = SelectSeq(afterStart, LE)])

apply_date_filter_to_dataframe(dataframe, date_column, start_date, end_date) ==
    IF date_column = "index"
    THEN FilterByIndex(dataframe, start_date, end_date)
    ELSE FilterByColumn(dataframe, date_column, start_date, end_date)

\* strftime('%Y-%m-%d') of a Timestamp
strftime(c) == DateString(c[2])

\* str() of a Timestamp: the date followed by the time of day
TimestampText(d) == <<"str_datetime", d>>

convert_dataframe_to_json_serializable(rows, date_columns) ==
    [i \in 1 .. Len(rows) |->
        [f \in DOMAIN rows[i] |->
            IF f \in date_columns /\ rows[i][f][1] = "ts"
            THEN strftime(rows[i][f])
            ELSE rows[i][f]]]

validate_dataframe_not_empty(dataframe, dataframe_name) ==
    IF dataframe.isNone THEN Raise("ValidationError", <<"is None", dataframe_name>>)
    ELSE IF Len(dataframe.rows) = 0
    THEN Raise("ValidationError", <<"is empty", dataframe_name>>)
    ELSE Ok(dataframe)

----------------------------------------------------------------------------
(* backend/app.py: the request handlers *)

RECURSIVE Insert(_, _)
Insert(x, sorted) ==
    IF sorted = << >> THEN <<x>>
    ELSE IF x <= Head(sorted) THEN <<x>> \o sorted
    ELSE <<Head(sorted)>> \o Insert(x, Tail(sorted))

RECURSIVE SortNums(_)
SortNums(s) == IF s = << >> THEN << >> ELSE Insert(Head(s)[1], SortNums(Tail(s)))

\* Series.median(): the middle of the sorted non-missing values
SeriesMedian(s) ==
    LET v == SortNums(DropNaN(s))
        n == Len(v)
    IN IF n = 0 THEN NaN
       ELSE IF n % 2 = 1 THEN Num(v[(n + 1) \div 2])
       ELSE Norm(v[n \div 2] + v[n \div 2 + 1], 2)

RECURSIVE MinDate(_)
MinDate(rows) == IF Len(rows) = 1 THEN rows[1].date
                 ELSE LET m == MinDate(Tail(rows))
                      IN IF rows[1].date < m THEN rows[1].date ELSE m

RECURSIVE MaxDateOf(_)
MaxDateOf(rows) == IF Len(rows) = 1 THEN rows[1].date
                   ELSE LET m == MaxDateOf(Tail(rows))
                        IN IF rows[1].date > m THEN rows[1].date ELSE m

PriceUnavailable == <<"Price data is not available. Please ensure data files are loaded.">>

EventUnavailable == <<"Event data is not available. Please ensure data files are loaded.">>

\* lines 212-219
PriceDataResult(rows) ==
    [dates |-> [i \in 1 .. Len(rows) |-> strftime(Timestamp(rows[i].date))],
     prices |-> [i \in 1 .. Len(rows) |-> rows[i].price],
     min_date |-> TimestampText(MinDate(rows)),
     max_date |-> TimestampText(MaxDateOf(rows)),
     count |-> Len(rows)]

\* str(e) of the KeyError raised by filtered_df['price']
PriceKeyError == <<"KeyError", "price">>

\* a bug that answers 500 with str(e) of the exception caught
PriceDataFromCacheLeaking(c, start_date, end_date) ==
    LET price == c["price_data"]
        nonempty == validate_dataframe_not_empty(price, "Price data")
        range == validate_date_range(start_date, end_date)
        filtered == apply_date_filter_to_dataframe(price, "index",
                                                   range.value[1], range.value[2])
        remaining == validate_dataframe_not_empty(filtered.value, "Filtered price data")
    IN IF nonempty.raise # "none" THEN ErrorReply(nonempty.msg, 400, "ValidationError")
       ELSE IF range.raise # "none" THEN ErrorReply(range.msg, 400, "ValidationError")
       ELSE IF filtered.raise = "ValidationError"
       THEN ErrorReply(filtered.msg, 400, "ValidationError")
       ELSE IF filtered.raise # "none"
       THEN ErrorReply(filtered.msg, 500, "InternalServerError")
       ELSE IF remaining.raise # "none"
       THEN ErrorReply(remaining.msg, 400, "ValidationError")
       ELSE IF "price" \notin filtered.value.columns
       THEN ErrorReply(PriceKeyError, 500, "InternalServerError")
       ELSE SuccessReply(PriceDataResult(filtered.value.rows))

\* lines 177-222: the handler once the cache is known to hold price_data
PriceDataFromCache(c, start_date, end_date) ==
    LET price == c["price_data"]
        nonempty == validate_dataframe_not_empty(price, "Price data")
        range == validate_date_range(start_date, end_date)
        filtered == apply_date_filter_to_dataframe(price, "index",
                                                   range.value[1], range.value[2])
        remaining == validate_dataframe_not_empty(filtered.value, "Filtered price data")
    IN IF nonempty.raise # "none" THEN ErrorReply(nonempty.msg, 400, "ValidationError")
       ELSE IF range.raise # "none" THEN ErrorReply(range.msg, 400, "ValidationError")
       ELSE IF filtered.raise = "ValidationError"
       THEN ErrorReply(filtered.msg, 400, "ValidationError")
       ELSE IF filtered.raise # "none"
       THEN ErrorReply(GenericMessage, 500, "InternalServerError")
       ELSE IF remaining.raise # "none"
       THEN ErrorReply(remaining.msg, 400, "ValidationError")
       ELSE IF "price" \notin filtered.value.columns
       THEN ErrorReply(GenericMessage, 500, "InternalServerError")
       ELSE SuccessReply(PriceDataResult(filtered.value.rows))

\* a bug that validates the query before looking at the cache
get_price_data_validating_first(c, start_date, end_date) ==
    LET range == validate_date_range(start_date, end_date)
    IN IF range.raise # "none" THEN ErrorReply(range.msg, 400, "ValidationError")
       ELSE IF "price_data" \notin DOMAIN c
       THEN ErrorReply(PriceUnavailable, 503, "DataUnavailableError")
       ELSE PriceDataFromCache(c, start_date, end_date)

\* GET /api/price-data, lines 155-238
get_price_data(c, start_date, end_date) ==
    IF "price_data" \notin DOMAIN c
    THEN ErrorReply(PriceUnavailable, 503, "DataUnavailableError")
    ELSE PriceDataFromCache(c, start_date, end_date)

\* lines 497-505
StatisticsResult(rows) ==
    LET price_series == PriceColumn(rows)
    IN [mean |-> SeriesMean(price_series),
        median |-> SeriesMedian(price_series),
        std |-> SeriesStd(price_series),
        min |-> SeriesMin(price_series),
        max |-> SeriesMax(price_series),
        count |-> Len(rows)]

\* GET /api/statistics, lines 438-532
get_statistics(c, start_date, end_date) ==
    IF "price_data" \notin DOMAIN c
    THEN ErrorReply(PriceUnavailable, 503, "DataUnavailableError")
    ELSE
    LET price == c["price_data"]
        nonempty == validate_dataframe_not_empty(price, "Price data")
        range == validate_date_range(start_date, end_date)
        filtered == apply_date_filter_to_dataframe(price, "index",
                                                   range.value[1], range.value[2])
        remaining == validate_dataframe_not_empty(filtered.value, "Filtered price data")
    IN IF nonempty.raise # "none" THEN ErrorReply(nonempty.msg, 400, "ValidationError")
       ELSE IF range.raise # "none" THEN ErrorReply(range.msg, 400, "ValidationError")
       ELSE IF filtered.raise = "ValidationError"
       THEN ErrorReply(filtered.msg, 400, "ValidationError")
       ELSE IF filtered.raise # "none"
       THEN ErrorReply(GenericMessage, 500, "InternalServerError")
       ELSE IF remaining.raise # "none"
       THEN ErrorReply(remaining.msg, 400, "ValidationError")
       ELSE IF "price" \notin filtered.value.columns
       THEN ErrorReply(<<"Failed to calculate statistics. Please check your date range.">>,
                       500, "CalculationError")
       ELSE SuccessReply(StatisticsResult(filtered.value.rows))

CategoryNaN == "NaN"

\* Series.dropna().unique().tolist(): the values in order of first appearance
RECURSIVE UniqueValues(_, _)
UniqueValues(rows, column) ==
    IF rows = << >> THEN << >>
    ELSE LET front == UniqueValues(SubSeq(rows, 1, Len(rows) - 1), column)
             v == rows[Len(rows)][column]
         IN IF v = CategoryNaN \/ InSeq(v, front) THEN front ELSE Append(front, v)

Available(frame, column) ==
    IF column \in frame.columns THEN UniqueValues(frame.rows, column) ELSE << >>

WhereEquals(rows, column, v) ==
    LET Eq(r) == r[column] = v
    IN SelectSeq(rows, Eq)

\* GET /api/events, lines 241-382
get_events(c, start_date, end_date, event_type, impact_type, severity) ==
    IF "event_data" \notin DOMAIN c
    THEN ErrorReply(EventUnavailable, 503, "DataUnavailableError")
    ELSE
    LET events == c["event_data"]
        nonempty == validate_dataframe_not_empty(events, "Event data")
        range == validate_date_range(start_date, end_date)
        filtered == apply_date_filter_to_dataframe(events, "event_date",
                                                   range.value[1], range.value[2])
        available_event_types == Available(filtered.value, "event_type")
        available_impact_types == Available(filtered.value, "impact_type")
        available_severities == Available(filtered.value, "severity")
        v1 == validate_filter_value(event_type, available_event_types, "event_type")
        rows1 == IF FilterGiven(event_type)
                 THEN WhereEquals(filtered.value.rows, "event_type", event_type)
                 ELSE filtered.value.rows
        v2 == validate_filter_value(impact_type, available_impact_types, "impact_type")
        rows2 == IF FilterGiven(impact_type)
                 THEN WhereEquals(rows1, "impact_type", impact_type)
                 ELSE rows1
        v3 == validate_filter_value(severity, available_severities, "severity")
        rows3 == IF FilterGiven(severity)
                 THEN WhereEquals(rows2, "severity", severity)
                 ELSE rows2
        events_list == convert_dataframe_to_json_serializable(rows3, {"event_date"})
    IN IF nonempty.raise # "none" THEN ErrorReply(nonempty.msg, 400, "ValidationError")
       ELSE IF range.raise # "none" THEN ErrorReply(range.msg, 400, "ValidationError")
       ELSE IF filtered.raise = "ValidationError"
       THEN ErrorReply(filtered.msg, 400, "ValidationError")
       ELSE IF filtered.raise # "none"
       THEN ErrorReply(GenericMessage, 500, "InternalServerError")
       ELSE IF FilterGiven(event_type) /\ v1.raise # "none"
       THEN ErrorReply(v1.msg, 400, "ValidationError")
       ELSE IF FilterGiven(impact_type) /\ v2.raise # "none"
       THEN ErrorReply(v2.msg, 400, "ValidationError")
       ELSE IF FilterGiven(severity) /\ v3.raise # "none"
       THEN ErrorReply(v3.msg, 400, "ValidationError")
       ELSE SuccessReply([events |-> events_list, count |-> Len(events_list)])

\* sorted(column.dropna().unique().tolist()): the sorted list of distinct
\* values, represented by the set of its elements
SortedUnique(frame, column) ==
    {frame.rows[i][column] : i \in 1 .. Len(frame.rows)} \ {CategoryNaN}

\* GET /api/event-filters, lines 385-435
get_event_filters(c) ==
    IF "event_data" \notin DOMAIN c
    THEN ErrorReply(EventUnavailable, 503, "DataUnavailableError")
    ELSE
    LET events == c["event_data"]
        nonempty == validate_dataframe_not_empty(events, "Event data")
        names == {k \in {"event_type", "impact_type", "severity"} : k \in events.columns}
        key == [event_type |-> "event_types", impact_type |-> "impact_types",
                severity |-> "severities"]
    IN IF nonempty.raise # "none" THEN ErrorReply(nonempty.msg, 400, "ValidationError")
       ELSE SuccessReply([k \in {key[n] : n \in names} |->
                            SortedUnique(events,
                                         CHOOSE n \in names : key[n] = k)])

\* GET /api/health, lines 145-152
health_check(c) ==
    [http |-> 200,
     body |-> [status |-> "healthy",
               price_data_loaded |-> "price_data" \in DOMAIN c,
               event_data_loaded |-> "event_data" \in DOMAIN c]]

----------------------------------------------------------------------------
(* backend/app.py: load_data *)

StartupWindowDays == 30

\* lines 124-132: the aligner's output, or the event table when it raises
events_with_prices_of(price, events) ==
    LET r == align_events_with_prices(price, events, StartupWindowDays)
    IN IF r.outcome = "returned"
       THEN [events EXCEPT !.rows = r.table,
                           !.columns = events.columns \cup DerivedFields]
       ELSE events

\* a bug that lets a failed alignment reach the outer handler of lines
\* 136-138, which empties the cache
load_data_alignment_fatal(price, events, fails) ==
    IF fails \/ align_events_with_prices(price, events, StartupWindowDays).outcome
                   # "returned"
    THEN << >>
    ELSE [k \in {"price_data", "event_data", "events_with_prices"} |->
            IF k = "price_data" THEN price
            ELSE IF k = "event_data" THEN events
            ELSE events_with_prices_of(price, events)]

\* lines 52-138 from line 90 on: the three entries are stored, and any
\* unexpected exception empties the cache; the cached price and event tables
\* are the objects handed to the aligner, as they are after its call
load_data(price, events, fails) ==
    IF fails THEN << >>
    ELSE LET after == InputsAfterAlign(price, events, StartupWindowDays)
         IN [k \in {"price_data", "event_data", "events_with_prices"} |->
               IF k = "price_data" THEN after.price_df
               ELSE IF k = "event_data" THEN after.event_df
               ELSE events_with_prices_of(price, events)]

----------------------------------------------------------------------------
(* The aligner as a state machine: one call with arbitrary arguments *)

NoRequest ==
    [endpoint |-> "none", start_date |-> Absent, end_date |-> Absent,
     event_type |-> NoFilter, impact_type |-> NoFilter, severity |-> NoFilter]

NoResponse == [http |-> 0, body |-> << >>]

\* load_data reads no file
NoFiles ==
    /\ price_files = << >>
    /\ event_files = << >>
    /\ load_log = << >>

\* no call of the date filter on its own
FilterIdle ==
    /\ filter_pc = "idle"
    /\ filter_table = NoneEvents
    /\ filter_column = "index"
    /\ filter_start = NoBound
    /\ filter_end = NoBound
    /\ filter_once = Ok(NoneEvents)
    /\ filter_twice = Ok(NoneEvents)

\* no call of the analysis package on its own
AnalysisIdle ==
    /\ analysis_pc = "idle"
    /\ analysis_input = << >>
    /\ analysis_output = << >>
    /\ step_log = << >>

ServerOff ==
    /\ NoFiles
    /\ FilterIdle
    /\ phase = "off"
    /\ price_loaded = NonePrice
    /\ event_loaded = NoneEvents
    /\ load_fails = FALSE
    /\ cache = << >>
    /\ request = NoRequest
    /\ response = NoResponse

AlignCall ==
    /\ pc = "call"
    /\ LET r == align_events_with_prices(price_df, event_df, window_days)
       IN /\ outcome' = r.outcome
          /\ event_analysis' = r.table
    /\ price_df' = InputsAfterAlign(price_df, event_df, window_days).price_df
    /\ event_df' = InputsAfterAlign(price_df, event_df, window_days).event_df
    /\ pc' = "done"
    /\ UNCHANGED window_days
    /\ UNCHANGED <<apiVars, fileVars, filterVars, analysisVars>>

\* many events over price tables with one price value
InitAlign ==
    /\ pc = "call"
    /\ price_df \in PriceTables({Num(2)})
    /\ event_df \in EventTables
    /\ window_days \in WindowDays
    /\ outcome = "none"
    /\ event_analysis = << >>
    /\ ServerOff
    /\ AnalysisIdle

SpecAlign == InitAlign /\ [][AlignCall]_vars

\* one event over price tables with several price values and gaps
InitWindow ==
    /\ pc = "call"
    /\ price_df \in PriceTables({Num(0), Num(1), Num(3), NaN})
    /\ event_df \in SingleEventTables
    /\ window_days \in WindowDays
    /\ outcome = "none"
    /\ event_analysis = << >>
    /\ ServerOff
    /\ AnalysisIdle

SpecWindow == InitWindow /\ [][AlignCall]_vars

----------------------------------------------------------------------------
(* The server: load_data at import, then any sequence of requests *)

ApiDates == 0 .. MaxApiDate

\* price tables as load_oil_price_data returns them: a datetime index in file
\* order, dates possibly repeated or out of order
ApiPriceRows == [date : ApiDates, price : {Num(1), Num(3)}]

ApiPriceTables ==
    {PriceFrame(rows) :
        rows \in UNION {[1 .. n -> ApiPriceRows] : n \in 1 .. MaxCacheRows}}
    \cup {[PriceFrame(<<[date |-> 0, price |-> Num(1)]>>) EXCEPT !.columns = {"Price"}]}

SamplePrices ==
    PriceFrame(<<[date |-> 0, price |-> Num(1)], [date |-> 1, price |-> Num(3)]>>)

\* event_type, impact_type and severity as in the sample events of lines 113-118
Profiles ==
    {[event_type |-> "Economic", impact_type |-> "Demand Shock", severity |-> "Very High"],
     [event_type |-> "OPEC", impact_type |-> "Supply Shock", severity |-> "High"]}

ApiEventRow(i, c, prof) ==
    [id |-> i, event_date |-> c, event_type |-> prof.event_type,
     impact_type |-> prof.impact_type, severity |-> prof.severity]

ApiEventFrame(rows) ==
    [isNone |-> FALSE,
     columns |-> {"id", "event_date", "event_type", "impact_type", "severity"},
     rows |-> rows]

\* event tables as load_event_data returns them: dated events, and one table
\* whose date column stayed text because a cell did not parse
ApiEventTables ==
    UNION {{ApiEventFrame([i \in 1 .. n |-> ApiEventRow(i, Timestamp(ds[i]), ps[i])]) :
                ds \in [1 .. n -> ApiDates], ps \in [1 .. n -> Profiles]} :
             n \in 1 .. MaxCacheEvents}
    \cup {ApiEventFrame(<<ApiEventRow(1, DateString(0), CHOOSE q \in Profiles : q.event_type = "Economic"),
                          ApiEventRow(2, BadString, CHOOSE q \in Profiles : q.event_type = "OPEC")>>)}

SampleEvents ==
    ApiEventFrame(<<ApiEventRow(1, Timestamp(0), CHOOSE q \in Profiles : q.event_type = "Economic"),
                    ApiEventRow(2, Timestamp(1), CHOOSE q \in Profiles : q.event_type = "OPEC")>>)

DateParams == {Absent, EmptyString, BadString} \cup {DateString(d) : d \in ApiDates}

EventTypeParams == {NoFilter, "Economic", "Nonexistent"}

ImpactTypeParams == {NoFilter, "Supply Shock", "Nonexistent"}

SeverityParams == {NoFilter, "High", "Nonexistent"}

AlignerIdle ==
    /\ pc = "idle"
    /\ price_df = NonePrice
    /\ event_df = NoneEvents
    /\ window_days = 0
    /\ outcome = "none"
    /\ event_analysis = << >>

Init ==
    /\ AlignerIdle
    /\ NoFiles
    /\ FilterIdle
    /\ AnalysisIdle
    /\ phase = "startup"
    /\ \/ price_loaded \in ApiPriceTables /\ event_loaded = SampleEvents /\ load_fails = FALSE
       \/ price_loaded = SamplePrices /\ event_loaded \in ApiEventTables /\ load_fails = FALSE
       \/ price_loaded = SamplePrices /\ event_loaded = SampleEvents /\ load_fails = TRUE
    /\ cache = << >>
    /\ request = NoRequest
    /\ response = NoResponse

Frame == <<pc, price_df, event_df, window_days, outcome, event_analysis,
           price_loaded, event_loaded, load_fails, fileVars, filterVars,
           analysisVars>>

LoadData ==
    /\ phase = "startup"
    /\ cache' = load_data(price_loaded, event_loaded, load_fails)
    /\ phase' = "serving"
    /\ UNCHANGED <<request, response>>
    /\ UNCHANGED Frame

Request(endpoint, start_date, end_date, event_type, impact_type, severity) ==
    [endpoint |-> endpoint, start_date |-> start_date, end_date |-> end_date,
     event_type |-> event_type, impact_type |-> impact_type, severity |-> severity]

HealthCheck ==
    /\ phase = "serving"
    /\ request' = Request("/api/health", Absent, Absent, NoFilter, NoFilter, NoFilter)
    /\ response' = health_check(cache)
    /\ phase' = "replied"
    /\ UNCHANGED cache
    /\ UNCHANGED Frame

\* a bug that filters the cached table itself instead of a copy of it
GetPriceDataWithoutCopy ==
    /\ phase = "serving"
    /\ \E s \in DateParams, e \in DateParams :
          /\ request' = Request("/api/price-data", s, e, NoFilter, NoFilter, NoFilter)
          /\ response' = get_price_data(cache, s, e)
          /\ cache' =
                IF "price_data" \in DOMAIN cache /\ response'.http = 200
                THEN [cache EXCEPT !["price_data"] =
                        apply_date_filter_to_dataframe(
                            cache["price_data"], "index",
                            validate_date_range(s, e).value[1],
                            validate_date_range(s, e).value[2]).value]
                ELSE cache
    /\ phase' = "replied"
    /\ UNCHANGED Frame

GetPriceData ==
    /\ phase = "serving"
    /\ \E s \in DateParams, e \in DateParams :
          /\ request' = Request("/api/price-data", s, e, NoFilter, NoFilter, NoFilter)
          /\ response' = get_price_data(cache, s, e)
    /\ phase' = "replied"
    /\ UNCHANGED cache
    /\ UNCHANGED Frame

GetEvents ==
    /\ phase = "serving"
    /\ \E s \in DateParams, e \in DateParams, t \in EventTypeParams,
          m \in ImpactTypeParams, v \in SeverityParams :
          /\ request' = Request("/api/events", s, e, t, m, v)
          /\ response' = get_events(cache, s, e, t, m, v)
    /\ phase' = "replied"
    /\ UNCHANGED cache
    /\ UNCHANGED Frame

GetEventFilters ==
    /\ phase = "serving"
    /\ request' = Request("/api/event-filters", Absent, Absent, NoFilter, NoFilter, NoFilter)
    /\ response' = get_event_filters(cache)
    /\ phase' = "replied"
    /\ UNCHANGED cache
    /\ UNCHANGED Frame

GetStatistics ==
    /\ phase = "serving"
    /\ \E s \in DateParams, e \in DateParams :
          /\ request' = Request("/api/statistics", s, e, NoFilter, NoFilter, NoFilter)
          /\ response' = get_statistics(cache, s, e)
    /\ phase' = "replied"
    /\ UNCHANGED cache
    /\ UNCHANGED Frame

\* Flask's answer to a URL that no @app.route of lines 145-439 names: 404 with
\* the HTML page of werkzeug's NotFound
not_found == [http |-> 404, body |-> <<"<!doctype html>", "404 Not Found">>]

\* GET /api/event-correlation: no view function is registered for it
GetEventCorrelation ==
    /\ phase = "serving"
    /\ request' = Request("/api/event-correlation", Absent, Absent,
                          NoFilter, NoFilter, NoFilter)
    /\ response' = not_found
    /\ phase' = "replied"
    /\ UNCHANGED cache
    /\ UNCHANGED Frame

\* the response is sent and the server waits for the next request
AwaitRequest ==
    /\ phase = "replied"
    /\ phase' = "serving"
    /\ request' = NoRequest
    /\ response' = NoResponse
    /\ UNCHANGED cache
    /\ UNCHANGED Frame

Next ==
    \/ LoadData
    \/ AwaitRequest
    \/ HealthCheck
    \/ GetPriceData
    \/ GetEvents
    \/ GetEventFilters
    \/ GetStatistics
    \/ GetEventCorrelation

Spec == Init /\ [][Next]_vars

\* the server started on tables with one price value and with the event
\* profiles fixed by row
ServePriceTables ==
    {t \in ApiPriceTables : \A i \in 1 .. Len(t.rows) : t.rows[i].price = Num(1)}

ServeEventTables ==
    {t \in ApiEventTables :
        \A i \in 1 .. Len(t.rows) :
            t.rows[i].event_type = (IF i % 2 = 1 THEN "Economic" ELSE "OPEC")}

InitServe ==
    /\ Init
    /\ price_loaded \in ServePriceTables \cup {SamplePrices}
    /\ event_loaded \in ServeEventTables \cup {SampleEvents}

SpecServe == InitServe /\ [][Next]_vars

----------------------------------------------------------------------------
(* src/data_loader.py and the path walk of load_data: the files at the     *)
(* candidate paths are read at startup                                      *)

\* the candidate lists of lines 58-62 and 93-97 have three paths each
CandidatePaths == 3

\* a path: whether a file exists there and, if so, what it holds.  kind is
\* "empty" (no bytes), "malformed" (the CSV tokenizer fails), "header" (a
\* header line and no row) or "table"
NoFile == [exists |-> FALSE, kind |-> "none", columns |-> {}, rows |-> << >>]

File(kind, columns, rows) ==
    [exists |-> TRUE, kind |-> kind, columns |-> columns, rows |-> rows]

\* pd.read_csv up to the tokenizer
read_csv(file) ==
    IF file.kind = "empty"
    THEN Raise("EmptyDataError", <<"No columns to parse from file">>)
    ELSE IF file.kind = "malformed"
    THEN Raise("ParserError", <<"Error tokenizing data">>)
    ELSE Ok(file.rows)

validate_file_path(file) ==
    IF file.exists THEN Ok(file) ELSE Raise("FileNotFoundError", <<"File not found">>)

\* read_csv(parse_dates=True, index_col=0) leaves the index as text when a
\* cell does not parse; pd.to_datetime(df.index) then raises
ensure_datetime_index(rows) ==
    IF \E i \in 1 .. Len(rows) : rows[i].date = BadString
    THEN Raise("ValueError", <<"Failed to convert to DatetimeIndex", "price data">>)
    ELSE Ok([i \in 1 .. Len(rows) |->
                [date |-> to_datetime_cell(rows[i].date)[2], price |-> rows[i].price]])

\* a bug that lets the ValueError of the index conversion out as it is
load_oil_price_data_unwrapped(file) ==
    LET path == validate_file_path(file)
        df == read_csv(file)
        indexed == ensure_datetime_index(df.value)
    IN IF path.raise # "none" THEN Raise("DataLoadingError", path.msg)
       ELSE IF df.raise = "EmptyDataError" THEN Raise("DataLoadingError", <<"File is empty">>)
       ELSE IF df.raise = "ParserError"
       THEN Raise("DataLoadingError", <<"Failed to parse CSV file">>)
       ELSE IF df.value = << >>
       THEN Raise("DataLoadingError", <<"Loaded DataFrame is empty">>)
       ELSE IF indexed.raise # "none" THEN indexed
       ELSE Ok(PriceFrame(indexed.value))

\* load_oil_price_data(path), lines 38-136, called with a path only
load_oil_price_data(file) ==
    LET path == validate_file_path(file)
        df == read_csv(file)
        indexed == ensure_datetime_index(df.value)
    IN IF path.raise # "none" THEN Raise("DataLoadingError", path.msg)
       ELSE IF df.raise = "EmptyDataError" THEN Raise("DataLoadingError", <<"File is empty">>)
       ELSE IF df.raise = "ParserError"
       THEN Raise("DataLoadingError", <<"Failed to parse CSV file">>)
       ELSE IF df.value = << >>
       THEN Raise("DataLoadingError", <<"Loaded DataFrame is empty">>)
       ELSE IF indexed.raise # "none" THEN Raise("DataLoadingError", indexed.msg)
       ELSE Ok(PriceFrame(indexed.value))

\* read_csv(parse_dates=["event_date"]): the column becomes datetime when
\* every cell parses and stays text otherwise
parse_event_dates(rows) ==
    IF \E i \in 1 .. Len(rows) : rows[i].event_date = BadString
    THEN rows
    ELSE [i \in 1 .. Len(rows) |->
            [rows[i] EXCEPT !.event_date = to_datetime_cell(rows[i].event_date)]]

\* load_event_data(path), lines 265-313
load_event_data(file) ==
    LET path == validate_file_path(file)
        df == read_csv(file)
    IN IF path.raise # "none" THEN Raise("DataLoadingError", path.msg)
       ELSE IF df.raise = "EmptyDataError"
       THEN Raise("DataLoadingError", <<"Event data file is empty">>)
       ELSE IF df.raise = "ParserError"
       THEN Raise("DataLoadingError", <<"Failed to parse event data CSV">>)
       ELSE IF "event_date" \notin file.columns
       THEN Raise("DataLoadingError", <<"Unexpected error loading event data",
                                        "Missing column provided to 'parse_dates'">>)
       ELSE IF df.value = << >>
       THEN Raise("DataLoadingError", <<"Event data file is empty">>)
       ELSE Ok(ApiEventFrame(parse_event_dates(df.value)))

\* the loops of lines 65-73 and 100-108: the paths load_data calls the loader
\* on are the existing ones up to the first whose load succeeds
TriedPaths(files, results) ==
    {i \in 1 .. CandidatePaths :
        /\ files[i].exists
        /\ \A j \in 1 .. i - 1 : ~(files[j].exists /\ results[j].raise = "none")}

LoadedPath(files, results) ==
    {i \in TriedPaths(files, results) : results[i].raise = "none"}

\* one entry per loader call, with what it raised ("none": the table was
\* loaded), and an entry with path 0 when the sample data is created
LoadLog(dataset, files, results) ==
    LET order == SortedSeq(TriedPaths(files, results))
        calls == [k \in 1 .. Len(order) |->
                    [dataset |-> dataset, path |-> order[k],
                     outcome |-> results[order[k]].raise]]
    IN IF LoadedPath(files, results) = {}
       THEN Append(calls, [dataset |-> dataset, path |-> 0, outcome |-> "sample"])
       ELSE calls

\* price_df at line 90 and event_df at line 122
ChosenTable(files, results, sample) ==
    IF LoadedPath(files, results) = {} THEN sample
    ELSE results[CHOOSE i \in LoadedPath(files, results) : TRUE].value

PriceResults(files) == [i \in 1 .. CandidatePaths |-> load_oil_price_data(files[i])]

EventResults(files) == [i \in 1 .. CandidatePaths |-> load_event_data(files[i])]

\* the files the model starts from: the first path holds any file, the other
\* two are absent, empty or hold one fixed table
FileCells == {BadString} \cup {DateString(d) : d \in 0 .. MaxFileDate}

PriceFileRows == [date : FileCells, price : {Num(1)}]

PriceFileStates ==
    {NoFile, File("empty", {}, << >>), File("malformed", {}, << >>),
     File("header", {"price"}, << >>)}
    \cup {File("table", {"price"}, rows) :
            rows \in UNION {[1 .. n -> PriceFileRows] : n \in 1 .. MaxFileRows}}

PlainPriceFiles ==
    {NoFile, File("empty", {}, << >>),
     File("table", {"price"}, <<[date |-> DateString(0), price |-> Num(3)]>>)}

EventColumns == {"id", "event_date", "event_type", "impact_type", "severity"}

EventFileRow(i, c) ==
    ApiEventRow(i, c, CHOOSE q \in Profiles :
                         q.event_type = (IF i % 2 = 1 THEN "Economic" ELSE "OPEC"))

EventFileStates ==
    {NoFile, File("empty", {}, << >>), File("malformed", {}, << >>),
     File("header", EventColumns, << >>),
     File("table", EventColumns \ {"event_date"}, <<EventFileRow(1, DateString(0))>>)}
    \cup UNION {{File("table", EventColumns, [i \in 1 .. n |-> EventFileRow(i, cs[i])]) :
                    cs \in [1 .. n -> FileCells]} : n \in 1 .. MaxFileRows}

PlainEventFiles ==
    {NoFile, File("empty", {}, << >>),
     File("table", EventColumns, <<EventFileRow(1, DateString(1))>>)}

NoPaths == [i \in 1 .. CandidatePaths |-> NoFile]

InitLoad ==
    /\ AlignerIdle
    /\ FilterIdle
    /\ AnalysisIdle
    /\ phase = "startup"
    /\ \/ /\ price_files \in {<<a, b, c>> : a \in PriceFileStates,
                                           b \in PlainPriceFiles, c \in PlainPriceFiles}
          /\ event_files = NoPaths
       \/ /\ price_files = NoPaths
          /\ event_files \in {<<a, b, c>> : a \in EventFileStates,
                                           b \in PlainEventFiles, c \in PlainEventFiles}
    /\ load_log = << >>
    /\ price_loaded = NonePrice
    /\ event_loaded = NoneEvents
    /\ load_fails = FALSE
    /\ cache = << >>
    /\ request = NoRequest
    /\ response = NoResponse

\* load_data() at import, lines 52-138, reading the candidate paths
LoadDataFromFiles ==
    /\ phase = "startup"
    /\ LET prices == PriceResults(price_files)
           events == EventResults(event_files)
           price == ChosenTable(price_files, prices, SamplePrices)
           event == ChosenTable(event_files, events, SampleEvents)
       IN /\ price_loaded' = price
          /\ event_loaded' = event
          /\ load_log' = LoadLog("price", price_files, prices)
                           \o LoadLog("event", event_files, events)
          /\ cache' = load_data(price, event, load_fails)
    /\ phase' = "serving"
    /\ UNCHANGED <<price_files, event_files, load_fails, request, response>>
    /\ UNCHANGED <<alignVars, filterVars, analysisVars>>

NextLoad ==
    \/ LoadDataFromFiles
    \/ GetPriceData
    \/ AwaitRequest

SpecLoad == InitLoad /\ [][NextLoad]_vars

----------------------------------------------------------------------------
(* The date filter on its own: one table filtered, and the result filtered *)
(* again with the same arguments                                            *)

FilterBounds == {NoBound} \cup {Timestamp(d) : d \in ApiDates}

\* event tables with a datetime column, missing dates included
DatedEventTables ==
    {EventFrame(rows) : rows \in EventRowSeqs(DatetimeCells, MaxEvents)}

InitFilter ==
    /\ AlignerIdle
    /\ NoFiles
    /\ AnalysisIdle
    /\ phase = "off"
    /\ price_loaded = NonePrice
    /\ event_loaded = NoneEvents
    /\ load_fails = FALSE
    /\ cache = << >>
    /\ request = NoRequest
    /\ response = NoResponse
    /\ filter_pc = "call"
    /\ \/ filter_column = "index" /\ filter_table \in ApiPriceTables
       \/ filter_column = "event_date" /\ filter_table \in ApiEventTables
       \/ filter_column = "event_date" /\ filter_table \in DatedEventTables
    /\ filter_start \in FilterBounds
    /\ filter_end \in FilterBounds
    /\ filter_once = Ok(NoneEvents)
    /\ filter_twice = Ok(NoneEvents)

FilterTwice ==
    /\ filter_pc = "call"
    /\ LET once == apply_date_filter_to_dataframe(filter_table, filter_column,
                                                  filter_start, filter_end)
       IN /\ filter_once' = once
          /\ filter_twice' =
                IF once.raise = "none"
                THEN apply_date_filter_to_dataframe(once.value, filter_column,
                                                    filter_start, filter_end)
                ELSE once
    /\ filter_pc' = "done"
    /\ UNCHANGED <<filter_table, filter_column, filter_start, filter_end>>
    /\ UNCHANGED <<alignVars, apiVars, fileVars, analysisVars>>

SpecFilter == InitFilter /\ [][FilterTwice]_vars

----------------------------------------------------------------------------
(* Vocabulary of the aligner's properties, stated on the call's arguments   *)
(* and result only                                                          *)

Returned == pc = "done" /\ outcome = "returned"

InputCell(i) == event_df.rows[i].event_date

HasDay(i) == InputCell(i)[1] \in {"ts", "str"}

EventDay(i) == InputCell(i)[2]

PriceIdx == 1 .. Len(price_df.rows)

PriceAt(j) == price_df.rows[j].price

BeforeIdx(i) == {j \in PriceIdx : /\ price_df.rows[j].date >= EventDay(i) - window_days
                                  /\ price_df.rows[j].date < EventDay(i)}

AfterIdx(i) == {j \in PriceIdx : /\ price_df.rows[j].date > EventDay(i)
                                 /\ price_df.rows[j].date <= EventDay(i) + window_days}

WindowIdx(i) == {j \in PriceIdx : /\ price_df.rows[j].date >= EventDay(i) - window_days
                                  /\ price_df.rows[j].date <= EventDay(i) + window_days}

Aligned(i) == HasDay(i) /\ BeforeIdx(i) # {} /\ AfterIdx(i) # {}

AllDerivedNull(row) ==
    /\ row.price_before = NaN /\ row.price_after = NaN /\ row.price_change = NaN
    /\ row.price_change_pct = NaN /\ row.max_price_window = NaN
    /\ row.min_price_window = NaN /\ row.volatility_window = NaN

\* the arguments pass every structural check of the contract
StructurallyValid ==
    /\ ~price_df.isNone /\ price_df.rows # << >>
    /\ "price" \in price_df.columns /\ price_df.datetimeIndex
    /\ ~event_df.isNone /\ event_df.rows # << >>
    /\ "event_date" \in event_df.columns
    /\ window_days > 0

AllDatesParse == \A i \in 1 .. Len(event_df.rows) : InputCell(i)[1] # "bad"

Present(J) == {j \in J : PriceAt(j)[2] # 0}

RECURSIVE SumOver(_)
SumOver(J) == IF J = {} THEN 0
              ELSE LET j == CHOOSE x \in J : TRUE
                   IN PriceAt(j)[1] + SumOver(J \ {j})

RECURSIVE SumSqOver(_)
SumSqOver(J) == IF J = {} THEN 0
                ELSE LET j == CHOOSE x \in J : TRUE
                     IN PriceAt(j)[1] * PriceAt(j)[1] + SumSqOver(J \ {j})

\* m is the mean of the prices at J (missing prices aside)
IsMeanOf(m, J) ==
    LET K == Present(J)
    IN IF K = {} THEN m = NaN
       ELSE m[2] > 0 /\ m[1] * Cardinality(K) = m[2] * SumOver(K)

IsMaxOf(m, J) ==
    LET K == Present(J)
    IN IF K = {} THEN m = NaN
       ELSE /\ m[2] = 1
            /\ \E j \in K : PriceAt(j)[1] = m[1]
            /\ \A j \in K : PriceAt(j)[1] <= m[1]

IsMinOf(m, J) ==
    LET K == Present(J)
    IN IF K = {} THEN m = NaN
       ELSE /\ m[2] = 1
            /\ \E j \in K : PriceAt(j)[1] = m[1]
            /\ \A j \in K : PriceAt(j)[1] >= m[1]

\* v is the square of the sample standard deviation of the prices at J
IsStdOf(v, J) ==
    LET K == Present(J)
        n == Cardinality(K)
    IN IF n < 2 THEN v = NaN
       ELSE /\ v[2] > 0
            /\ v[1] * n * (n - 1) = v[2] * (n * SumSqOver(K) - SumOver(K) * SumOver(K))

\* c = a - b on floats
IsDiff(c, a, b) ==
    IF a[2] = 0 \/ b[2] = 0 THEN c = NaN
    ELSE c[2] > 0 /\ c[1] * a[2] * b[2] = (a[1] * b[2] - b[1] * a[2]) * c[2]

IsZero(x) == x[2] # 0 /\ x[1] = 0

\* q = c / b * 100 on floats, b non-zero
IsPct(q, c, b) == q[2] > 0 /\ q[1] * b[1] * c[2] = 100 * c[1] * b[2] * q[2]

----------------------------------------------------------------------------
(* Properties of the aligner *)

\* C1 as stated: whenever the call returns, the output holds one row per input
\* event, in input order, and every original field of a row (here id and
\* event_date) equals the input row's field.
C1_RowsAndFieldsKept ==
    Returned =>
        /\ Len(event_analysis) = Len(event_df.rows)
        /\ \A i \in 1 .. Len(event_df.rows) :
              /\ event_analysis[i].id = event_df.rows[i].id
              /\ event_analysis[i].event_date = InputCell(i)

\* C1 amended: whenever the call returns, the output holds one row per input
\* event, in input order; every original field other than the event date
\* equals the input's, and the event date is the input's date as a datetime
\* (equal to the input when that already was a datetime or missing).
C1_RowsKeptDatesParsed ==
    Returned =>
        /\ Len(event_analysis) = Len(event_df.rows)
        /\ \A i \in 1 .. Len(event_df.rows) :
              /\ event_analysis[i].id = event_df.rows[i].id
              /\ IF HasDay(i)
                 THEN event_analysis[i].event_date = <<"ts", EventDay(i)>>
                 ELSE event_analysis[i].event_date = <<"nat", 0>>
              /\ InputCell(i)[1] \in {"ts", "nat"}
                    => event_analysis[i].event_date = InputCell(i)

\* a returned call with an aligned event given as a string and a null-date event
C1_Witness ==
    /\ Returned
    /\ Len(event_df.rows) = 2
    /\ \E i, k \in 1 .. 2 :
          /\ InputCell(i)[1] = "str" /\ Aligned(i)
          /\ event_analysis[i].price_before # NaN
          /\ InputCell(k)[1] = "nat"
          /\ AllDerivedNull(event_analysis[k])

\* C2: in a call whose arguments pass validation and whose dates parse, the
\* call returns; an event whose before or after subset is empty is present with
\* all seven derived fields null; price_before, price_after and price_change
\* are non-null only for an event with both subsets non-empty.
C2_InsufficientWindowLeavesNulls ==
    (pc = "done" /\ StructurallyValid /\ AllDatesParse) =>
        /\ outcome = "returned"
        /\ Len(event_analysis) = Len(event_df.rows)
        /\ \A i \in 1 .. Len(event_df.rows) :
              /\ event_analysis[i].id = event_df.rows[i].id
              /\ (HasDay(i) /\ (BeforeIdx(i) = {} \/ AfterIdx(i) = {}))
                    => AllDerivedNull(event_analysis[i])
              /\ (\/ event_analysis[i].price_before # NaN
                  \/ event_analysis[i].price_after # NaN
                  \/ event_analysis[i].price_change # NaN)
                    => Aligned(i)

\* an event with prices after it in the window and none before it, left null
C2_Witness ==
    /\ Returned
    /\ \E i \in 1 .. Len(event_df.rows) :
          /\ HasDay(i) /\ BeforeIdx(i) = {} /\ AfterIdx(i) # {}
          /\ AllDerivedNull(event_analysis[i])

\* C3 as stated: for every aligned event price_change = price_after -
\* price_before, price_change_pct is null iff price_before = 0, and otherwise
\* price_change_pct = price_change / price_before * 100.
C3_PctNullIffBeforeZero ==
    Returned =>
        \A i \in 1 .. Len(event_df.rows) : Aligned(i) =>
            LET r == event_analysis[i]
            IN /\ IsDiff(r.price_change, r.price_after, r.price_before)
               /\ (r.price_change_pct = NaN) <=> IsZero(r.price_before)
               /\ ~IsZero(r.price_before)
                     => IsPct(r.price_change_pct, r.price_change, r.price_before)

\* C3 amended: for every aligned event price_change = price_after -
\* price_before; price_change_pct is null iff price_before = 0 or one of the
\* two means is itself null (a subset holding only missing prices); otherwise
\* price_change_pct = price_change / price_before * 100.
C3_PctNullIffZeroOrMissing ==
    Returned =>
        \A i \in 1 .. Len(event_df.rows) : Aligned(i) =>
            LET r == event_analysis[i]
            IN /\ IsDiff(r.price_change, r.price_after, r.price_before)
               /\ (r.price_change_pct = NaN)
                     <=> (\/ IsZero(r.price_before)
                          \/ r.price_before = NaN
                          \/ r.price_after = NaN)
               /\ (r.price_change_pct # NaN)
                     => IsPct(r.price_change_pct, r.price_change, r.price_before)

\* an aligned event with a non-zero price_before and a non-zero change
C3_Witness ==
    /\ Returned
    /\ \E i \in 1 .. Len(event_df.rows) :
          /\ Aligned(i)
          /\ event_analysis[i].price_change_pct # NaN
          /\ event_analysis[i].price_change[1] # 0
          /\ event_analysis[i].price_before[2] > 1

\* C4: for an aligned event price_before is the mean of exactly the prices
\* dated in [d-W, d), price_after the mean of exactly those in (d, d+W], and
\* max, min and volatility are taken over all prices dated in [d-W, d+W], the
\* one dated d included.
C4_WindowSubsets ==
    Returned =>
        \A i \in 1 .. Len(event_df.rows) : Aligned(i) =>
            LET r == event_analysis[i]
            IN /\ IsMeanOf(r.price_before, BeforeIdx(i))
               /\ IsMeanOf(r.price_after, AfterIdx(i))
               /\ IsMaxOf(r.max_price_window, WindowIdx(i))
               /\ IsMinOf(r.min_price_window, WindowIdx(i))
               /\ IsStdOf(r.volatility_window, WindowIdx(i))

\* an aligned event with two prices before it and a price on its own date that
\* is the highest of the window
C4_Witness ==
    /\ Returned
    /\ \E i \in 1 .. Len(event_df.rows) :
          /\ Aligned(i)
          /\ Cardinality(Present(BeforeIdx(i))) >= 2
          /\ \E j \in Present(WindowIdx(i)) :
                /\ price_df.rows[j].date = EventDay(i)
                /\ \A k \in Present(WindowIdx(i)) \ {j} : PriceAt(k)[1] < PriceAt(j)[1]
                /\ event_analysis[i].max_price_window = PriceAt(j)

\* C5 as stated: an event whose date is null or cannot be parsed is skipped
\* without failing the call: the call returns, that event is in the output with
\* no derived field set, and every other event is aligned as usual.
C5_BadDateSkipsOnlyItsRow ==
    (pc = "done" /\ StructurallyValid) =>
        /\ outcome = "returned"
        /\ Len(event_analysis) = Len(event_df.rows)
        /\ \A i \in 1 .. Len(event_df.rows) :
              /\ ~HasDay(i) => AllDerivedNull(event_analysis[i])
              /\ Aligned(i) => IsMeanOf(event_analysis[i].price_before, BeforeIdx(i))

\* C6 as stated: the call raises EventIntegrationError and returns nothing when
\* the price table is empty or None, the event table is empty or None, the
\* price column is absent, the price index is not a datetime index, or
\* window_days <= 0.
C6_InvalidArgumentsRaiseDomainError ==
    (/\ pc = "done"
     /\ \/ price_df.isNone \/ price_df.rows = << >>
        \/ event_df.isNone \/ event_df.rows = << >>
        \/ "price" \notin price_df.columns
        \/ ~price_df.datetimeIndex
        \/ window_days <= 0)
    => (outcome = "EventIntegrationError" /\ event_analysis = << >>)

----------------------------------------------------------------------------
(* Vocabulary of the server's properties, stated on the cache, the request  *)
(* and the response only                                                    *)

Replied(endpoint) == phase = "replied" /\ request.endpoint = endpoint

HasKey(k) == k \in DOMAIN cache

\* a bound that is absent or empty sets no limit
NoLimit(q) == q[1] \in {"absent", "empty"}

IsDate(q) == q[1] = "str"

\* both bounds are absent, empty or dates, and in order when both are dates
ValidBounds ==
    /\ NoLimit(request.start_date) \/ IsDate(request.start_date)
    /\ NoLimit(request.end_date) \/ IsDate(request.end_date)
    /\ (IsDate(request.start_date) /\ IsDate(request.end_date))
          => request.start_date[2] <= request.end_date[2]

\* a bound is not a date, or the two dates are out of order
InvalidBounds ==
    \/ request.start_date[1] = "bad"
    \/ request.end_date[1] = "bad"
    \/ /\ IsDate(request.start_date) /\ IsDate(request.end_date)
       /\ request.start_date[2] > request.end_date[2]

WithinBounds(d) ==
    /\ IsDate(request.start_date) => request.start_date[2] <= d
    /\ IsDate(request.end_date) => d <= request.end_date[2]

\* the cached price rows inside the requested range, in cache order
PriceRowInRange(r) == WithinBounds(r.date)

CachedPricesInRange == SelectSeq(cache["price_data"].rows, PriceRowInRange)

\* the cached events inside the requested range, in cache order
EventRowInRange(r) ==
    \/ NoLimit(request.start_date) /\ NoLimit(request.end_date)
    \/ r.event_date[1] = "ts" /\ WithinBounds(r.event_date[2])

CachedEventsInRange == SelectSeq(cache["event_data"].rows, EventRowInRange)

\* the date column can be compared with the bounds
DateFilterCompletes ==
    \/ NoLimit(request.start_date) /\ NoLimit(request.end_date)
    \/ \A i \in 1 .. Len(cache["event_data"].rows) :
          cache["event_data"].rows[i].event_date[1] \in {"ts", "nat"}

ValuesPresent(column) ==
    {CachedEventsInRange[i][column] : i \in 1 .. Len(CachedEventsInRange)} \ {"NaN"}

\* the filter is supplied and its value is not among those of the remaining events
Offending(column) ==
    /\ request[column] \notin {"<none>", ""}
    /\ request[column] \notin ValuesPresent(column)

IsError(code, type) ==
    /\ response.http = code
    /\ response.body.status_code = code
    /\ response.body.error_type = type

DateRejection ==
    /\ response.http = 400
    /\ response.body.error[1] \in {"Invalid format", "must be a non-empty string",
                                   "start_date must be less than or equal to end_date"}

----------------------------------------------------------------------------
(* Properties of the server *)

\* C7 as stated: for a price cache and valid bounds start <= end with at least
\* one cached price in range, GET /api/price-data answers 200 with exactly the
\* cached rows in range, in cache order, and count equal to the number of dates
\* and of prices returned.
C7_PriceDataReturnsRowsInRange ==
    (/\ Replied("/api/price-data")
     /\ HasKey("price_data")
     /\ "price" \in cache["price_data"].columns
     /\ ValidBounds
     /\ CachedPricesInRange # << >>)
    => /\ response.http = 200
       /\ response.body.data.dates
             = [i \in 1 .. Len(CachedPricesInRange) |->
                   <<"str", CachedPricesInRange[i].date>>]
       /\ response.body.data.prices
             = [i \in 1 .. Len(CachedPricesInRange) |-> CachedPricesInRange[i].price]
       /\ response.body.data.count = Len(response.body.data.dates)
       /\ response.body.data.count = Len(response.body.data.prices)

\* C8: when the dataset an endpoint needs is absent from the cache it answers
\* 503 DataUnavailableError (price-data and statistics for price_data, events
\* and event-filters for event_data), whatever the query parameters are.
C8_UnavailableBeforeValidation ==
    /\ ((Replied("/api/price-data") \/ Replied("/api/statistics")) /\ ~HasKey("price_data"))
          => IsError(503, "DataUnavailableError")
    /\ ((Replied("/api/events") \/ Replied("/api/event-filters")) /\ ~HasKey("event_data"))
          => IsError(503, "DataUnavailableError")

\* a request with an unparseable date against an empty cache, answered 503
C8_Witness ==
    /\ Replied("/api/price-data")
    /\ ~HasKey("price_data")
    /\ request.start_date[1] = "bad"
    /\ IsError(503, "DataUnavailableError")

\* C9: GET /api/events with valid bounds and a supplied event_type, impact_type
\* or severity that is not among the values of the events remaining after date
\* filtering answers 400 ValidationError, with a message naming an offending
\* filter, its value and the values allowed for it.
C9_UnknownFilterValueRejected ==
    (/\ Replied("/api/events")
     /\ HasKey("event_data")
     /\ ValidBounds
     /\ DateFilterCompletes
     /\ Offending("event_type") \/ Offending("impact_type") \/ Offending("severity"))
    => /\ IsError(400, "ValidationError")
       /\ response.body.error[1] = "Invalid filter value"
       /\ response.body.error[2] \in {"event_type", "impact_type", "severity"}
       /\ Offending(response.body.error[2])
       /\ response.body.error[3] = request[response.body.error[2]]
       /\ {response.body.error[5][i] : i \in 1 .. Len(response.body.error[5])}
             = ValuesPresent(response.body.error[2])

\* an event_type that the cache holds but that no event inside the requested
\* range has, rejected
C9_Witness ==
    /\ Replied("/api/events")
    /\ HasKey("event_data")
    /\ ValidBounds
    /\ IsDate(request.start_date)
    /\ \E i \in 1 .. Len(cache["event_data"].rows) :
          cache["event_data"].rows[i].event_type = request.event_type
    /\ Offending("event_type")
    /\ IsError(400, "ValidationError")
    /\ response.body.error[5] # << >>

\* C10: on price-data, events and statistics, with the dataset available, a
\* bound that is not a date or a start_date after end_date yields 400
\* ValidationError; bounds that are dates in order (equal ones included) are
\* not rejected as dates; an absent or empty bound sets no limit on its side.
C10_DateBoundsValidated ==
    /\ (/\ \/ (Replied("/api/price-data") \/ Replied("/api/statistics")) /\ HasKey("price_data")
           \/ Replied("/api/events") /\ HasKey("event_data")
        /\ InvalidBounds)
       => IsError(400, "ValidationError")
    /\ (/\ \/ (Replied("/api/price-data") \/ Replied("/api/statistics")) /\ HasKey("price_data")
           \/ Replied("/api/events") /\ HasKey("event_data")
        /\ ValidBounds)
       => ~DateRejection
    /\ (Replied("/api/price-data") /\ response.http = 200)
       => response.body.data.dates
             = [i \in 1 .. Len(CachedPricesInRange) |->
                   <<"str", CachedPricesInRange[i].date>>]
    /\ (Replied("/api/statistics") /\ response.http = 200)
       => response.body.data.count = Len(CachedPricesInRange)
    /\ (/\ Replied("/api/events") /\ response.http = 200
        /\ request.event_type = "<none>" /\ request.impact_type = "<none>"
        /\ request.severity = "<none>")
       => /\ response.body.data.count = Len(CachedEventsInRange)
          /\ [i \in 1 .. Len(response.body.data.events) |->
                 response.body.data.events[i].id]
                = [i \in 1 .. Len(CachedEventsInRange) |-> CachedEventsInRange[i].id]

\* equal bounds on a day the cache holds, answered 200
C10_Witness ==
    /\ Replied("/api/price-data")
    /\ IsDate(request.start_date)
    /\ request.start_date = request.end_date
    /\ response.http = 200
    /\ response.body.data.count >= 1

\* the four data endpoints
DataEndpoints ==
    {"/api/price-data", "/api/events", "/api/event-filters", "/api/statistics"}

RepliedData == phase = "replied" /\ request.endpoint \in DataEndpoints

SuccessEnvelope ==
    /\ response.http = 200
    /\ DOMAIN response.body = {"data", "status", "status_code"}
    /\ response.body.status = "success"
    /\ response.body.status_code = 200

ErrorEnvelope ==
    /\ response.http \in {400, 500, 503}
    /\ DOMAIN response.body = {"error", "error_type", "status_code"}
    /\ response.body.status_code = response.http

\* the texts a handler sends with a 500
FixedTexts ==
    {"An internal server error occurred while processing your request.",
     "Failed to calculate statistics. Please check your date range."}

\* both bounds are dates and the start bound removes a cached price row
StaleMask ==
    /\ IsDate(request.start_date) /\ IsDate(request.end_date)
    /\ \E i \in 1 .. Len(cache["price_data"].rows) :
          cache["price_data"].rows[i].date < request.start_date[2]

\* a failure inside the handler that is neither a validation failure nor a
\* missing dataset
InternalFailure ==
    \/ /\ Replied("/api/price-data") \/ Replied("/api/statistics")
       /\ HasKey("price_data")
       /\ ValidBounds
       /\ \/ StaleMask
          \/ CachedPricesInRange # << >> /\ "price" \notin cache["price_data"].columns
    \/ /\ Replied("/api/events")
       /\ HasKey("event_data")
       /\ ValidBounds
       /\ ~DateFilterCompletes

\* C11: every response of price-data, events, event-filters and statistics is
\* the success envelope {data, status: "success", status_code: 200} sent with
\* HTTP 200, or the error envelope {error, error_type, status_code} whose
\* status_code equals the HTTP status sent, one of 400, 500, 503.
C11_TwoEnvelopes == RepliedData => (SuccessEnvelope \/ ErrorEnvelope)

\* an exception inside get_events that still ends in an error envelope
C11_Witness ==
    /\ Replied("/api/events")
    /\ HasKey("event_data")
    /\ ~DateFilterCompletes
    /\ response.http = 500
    /\ ErrorEnvelope

\* C12: a failure inside a handler that is not a ValidationError or a missing
\* dataset is answered 500 with one of the fixed texts and nothing else in the
\* message; every error reply that is neither a validation nor an
\* unavailability reply is of that form.
C12_InternalFailureIsGeneric500 ==
    /\ (RepliedData /\ InternalFailure) => response.http = 500
    /\ (/\ RepliedData
        /\ response.http # 200
        /\ response.body.error_type \notin {"ValidationError", "DataUnavailableError"})
       => /\ response.http = 500
          /\ Len(response.body.error) = 1
          /\ response.body.error[1] \in FixedTexts

\* the statistics of a price table without a price column, answered 500 with
\* the fixed text
C12_Witness ==
    /\ Replied("/api/statistics")
    /\ HasKey("price_data")
    /\ "price" \notin cache["price_data"].columns
    /\ response.http = 500
    /\ response.body.error_type = "CalculationError"
    /\ response.body.error[1] \in FixedTexts

\* jsonify writes a float NaN of the body as the literal NaN (json.dumps with
\* allow_nan left at its default) and a string as it is, so a value of the
\* body below is the value the client receives.

Statistics == {"mean", "median", "std", "min", "max"}

\* a date of the body in the form YYYY-MM-DD
IsDayText(v) == v[1] = "str"

\* C13 as stated: no 200 body holds a NaN; a statistic that is undefined for
\* the selected range, or a missing price, is sent as null.
C13_NoNaNInSuccessBody ==
    /\ (Replied("/api/statistics") /\ response.http = 200)
       => \A k \in Statistics : ~IsNaN(response.body.data[k])
    /\ (Replied("/api/price-data") /\ response.http = 200)
       => \A i \in 1 .. Len(response.body.data.prices) :
             ~IsNaN(response.body.data.prices[i])

\* C14 as stated: every date of a 200 body is a YYYY-MM-DD string: the
\* elements of dates, min_date and max_date of price-data, and event_date of
\* every record of events.
C14_DatesAreDayStrings ==
    /\ (Replied("/api/price-data") /\ response.http = 200)
       => /\ \A i \in 1 .. Len(response.body.data.dates) :
                IsDayText(response.body.data.dates[i])
          /\ IsDayText(response.body.data.min_date)
          /\ IsDayText(response.body.data.max_date)
    /\ (Replied("/api/events") /\ response.http = 200)
       => \A i \in 1 .. Len(response.body.data.events) :
             IsDayText(response.body.data.events[i].event_date)

\* what the handler of a request computes from a cache
Answer(c, q) ==
    CASE q.endpoint = "/api/health" -> health_check(c)
      [] q.endpoint = "/api/price-data" -> get_price_data(c, q.start_date, q.end_date)
      [] q.endpoint = "/api/events" ->
            get_events(c, q.start_date, q.end_date,
                       q.event_type, q.impact_type, q.severity)
      [] q.endpoint = "/api/event-filters" -> get_event_filters(c)
      [] q.endpoint = "/api/statistics" -> get_statistics(c, q.start_date, q.end_date)
      [] q.endpoint = "/api/event-correlation" -> not_found

\* the cache as load_data left it
PostStartupCache == load_data(price_loaded, event_loaded, load_fails)

C16_DateFilterIdempotent ==
    (filter_pc = "done" /\ filter_once.raise = "none")
    => /\ filter_twice.raise = "none"
       /\ filter_twice.value = filter_once.value

\* a filter with both bounds that removed rows and kept some
C16_Witness ==
    /\ filter_pc = "done"
    /\ filter_start # NoBound
    /\ filter_end # NoBound
    /\ filter_once.raise = "none"
    /\ Len(filter_once.value.rows) >= 1
    /\ Len(filter_once.value.rows) < Len(filter_table.rows)
    /\ filter_twice = filter_once

----------------------------------------------------------------------------
(* Properties of the startup load from files *)

\* load_data has read the candidate paths
StartedFromFiles == phase \in {"serving", "replied"} /\ price_files # << >>

FilesOf(dataset) == IF dataset = "price" THEN price_files ELSE event_files

\* the first candidate path that exists, 0 when none does
FirstExisting(files) ==
    IF \E i \in 1 .. CandidatePaths : files[i].exists
    THEN CHOOSE i \in 1 .. CandidatePaths :
            /\ files[i].exists
            /\ \A j \in 1 .. i - 1 : ~files[j].exists
    ELSE 0

\* the path the log says the dataset was loaded from, 0 when none
LoggedSource(dataset) ==
    IF \E k \in 1 .. Len(load_log) :
          load_log[k].dataset = dataset /\ load_log[k].outcome = "none"
    THEN load_log[CHOOSE k \in 1 .. Len(load_log) :
                     load_log[k].dataset = dataset /\ load_log[k].outcome = "none"].path
    ELSE 0

SampleUsed(dataset) ==
    \E k \in 1 .. Len(load_log) :
        load_log[k].dataset = dataset /\ load_log[k].outcome = "sample"

\* an existing file that is empty, cannot be parsed, or lacks what the loader
\* requires: rows for both kinds, a date index that parses for a price file,
\* the event_date column for an event file
Unloadable(dataset, file) ==
    /\ file.exists
    /\ \/ file.kind \in {"empty", "malformed", "header"}
       \/ dataset = "event" /\ "event_date" \notin file.columns
       \/ /\ dataset = "price"
          /\ \E i \in 1 .. Len(file.rows) : file.rows[i].date[1] = "bad"

\* C17 as stated: a price file loaded and served by /api/price-data without
\* bounds gives dates in strictly ascending order, in the order of the file's
\* rows.
C17_ServedDatesAscendingInFileOrder ==
    (/\ StartedFromFiles
     /\ Replied("/api/price-data")
     /\ NoLimit(request.start_date) /\ NoLimit(request.end_date)
     /\ LoggedSource("price") # 0
     /\ response.http = 200)
    => LET dates == response.body.data.dates
           rows == price_files[LoggedSource("price")].rows
       IN /\ \A k \in 1 .. Len(dates) - 1 : dates[k][2] < dates[k + 1][2]
          /\ Len(dates) = Len(rows)
          /\ \A k \in 1 .. Len(dates) : dates[k] = rows[k].date

\* C18 as stated: the cached price table holds no two rows with the same
\* date, whatever rows the file holds.
C18_NoDuplicateDatesAfterLoad ==
    (StartedFromFiles /\ HasKey("price_data"))
    => \A i, j \in 1 .. Len(cache["price_data"].rows) :
          i # j => cache["price_data"].rows[i].date # cache["price_data"].rows[j].date

\* C19 as stated: the cached price and event tables are the ones loaded from
\* the first candidate path that exists, and the sample data is used only
\* when no candidate path exists.
C19_FirstExistingPathIsCached ==
    StartedFromFiles
    => /\ \A dataset \in {"price", "event"} :
             /\ LoggedSource(dataset) = FirstExisting(FilesOf(dataset))
             /\ SampleUsed(dataset) <=> FirstExisting(FilesOf(dataset)) = 0
       /\ FirstExisting(price_files) # 0
             => /\ load_oil_price_data(price_files[FirstExisting(price_files)]).raise = "none"
                /\ cache["price_data"]
                      = load_oil_price_data(price_files[FirstExisting(price_files)]).value
       /\ FirstExisting(event_files) # 0
             => /\ load_event_data(event_files[FirstExisting(event_files)]).raise = "none"
                /\ cache["event_data"]
                      = load_event_data(event_files[FirstExisting(event_files)]).value

\* C20: every call of load_oil_price_data or load_event_data on a file that
\* exists but is empty, unparseable, or (event file) lacks event_date ends in
\* DataLoadingError; no table is returned for it and no other exception
\* reaches the caller.
C20_UnloadableFileRaisesLoadingError ==
    StartedFromFiles
    => /\ \A k \in 1 .. Len(load_log) :
             (/\ load_log[k].path # 0
              /\ Unloadable(load_log[k].dataset,
                            FilesOf(load_log[k].dataset)[load_log[k].path]))
             => load_log[k].outcome = "DataLoadingError"
       /\ \A dataset \in {"price", "event"} :
             /\ FirstExisting(FilesOf(dataset)) # 0
             /\ Unloadable(dataset, FilesOf(dataset)[FirstExisting(FilesOf(dataset))])
             => \E k \in 1 .. Len(load_log) :
                   /\ load_log[k].dataset = dataset
                   /\ load_log[k].path = FirstExisting(FilesOf(dataset))
                   /\ load_log[k].outcome = "DataLoadingError"

\* an event file with rows and no event_date column, refused with
\* DataLoadingError
C20_Witness ==
    /\ StartedFromFiles
    /\ \E k \in 1 .. Len(load_log) :
          /\ load_log[k].path # 0
          /\ load_log[k].dataset = "event"
          /\ load_log[k].outcome = "DataLoadingError"
          /\ event_files[load_log[k].path].kind = "table"
          /\ "event_date" \notin event_files[load_log[k].path].columns

----------------------------------------------------------------------------
(* Properties of the events endpoint *)

\* a categorical filter is supplied
Supplied(column) == request[column] \notin {"<none>", ""}

\* the event satisfies every supplied filter at once
PassesFilters(r) ==
    /\ EventRowInRange(r)
    /\ \A column \in {"event_type", "impact_type", "severity"} :
          Supplied(column) => r[column] = request[column]

\* the record sent for a cached event: its date as a day string
SentEvent(r) ==
    [f \in DOMAIN r |->
        IF f = "event_date" /\ r[f][1] = "ts" THEN <<"str", r[f][2]>> ELSE r[f]]

\* C24: a 200 response of GET /api/events holds exactly the cached events
\* that satisfy every supplied filter at once (date within the bounds; event_type,
\* impact_type and severity equal to the supplied values), in cache order,
\* and its count is the number of events returned.
C24_EventsMatchAllFilters ==
    (Replied("/api/events") /\ response.http = 200)
    => LET chosen == SelectSeq(cache["event_data"].rows, PassesFilters)
       IN /\ response.body.data.events = [i \in 1 .. Len(chosen) |-> SentEvent(chosen[i])]
          /\ response.body.data.count = Len(response.body.data.events)

\* two bounds and two categorical filters that one cached event passes and
\* another fails
C24_Witness ==
    /\ Replied("/api/events")
    /\ response.http = 200
    /\ IsDate(request.start_date) /\ IsDate(request.end_date)
    /\ Supplied("impact_type") /\ Supplied("severity")
    /\ Len(response.body.data.events) = 1
    /\ Len(cache["event_data"].rows) = 2

----------------------------------------------------------------------------
(* Properties of the event-correlation endpoint *)

\* JSON null
Null == <<"null", 0>>

\* an aligned event as the interface describes it: the date as a day string
\* and every NaN derived field as null
AlignedRecord(r) ==
    [f \in DOMAIN r |->
        IF f = "event_date" /\ r[f][1] = "ts" THEN <<"str", r[f][2]>>
        ELSE IF f \in DerivedFields /\ IsNaN(r[f]) THEN Null
        ELSE r[f]]

\* C25 as stated: GET /api/event-correlation is served; it answers 200 with
\* the aligned events computed at startup, one record per event, event_date
\* as a YYYY-MM-DD string and every NaN derived field as null.
C25_EventCorrelationServed ==
    (Replied("/api/event-correlation") /\ HasKey("events_with_prices"))
    => /\ response.http = 200
       /\ response.body =
             [i \in 1 .. Len(cache["events_with_prices"].rows) |->
                 AlignedRecord(cache["events_with_prices"].rows[i])]

----------------------------------------------------------------------------
(* Properties of the cache that load_data leaves *)

Started == phase \in {"serving", "replied"}

CacheKeys == {"price_data", "event_data", "events_with_prices"}

\* the call of the aligner that load_data makes on the tables it loaded
StartupAlignment ==
    align_events_with_prices(price_loaded, event_loaded, StartupWindowDays)

\* C26: after load_data the cache is empty or holds the three keys
\* price_data, event_data and events_with_prices; events_with_prices is the
\* aligner's output or, when the aligner raised, the unaligned event table,
\* and a failed alignment does not empty the cache.
C26_CacheAllOrNothing ==
    Started
    => /\ DOMAIN cache = {} \/ DOMAIN cache = CacheKeys
       /\ DOMAIN cache = {} => load_fails
       /\ DOMAIN cache = CacheKeys
             => IF StartupAlignment.outcome = "returned"
                THEN /\ cache["events_with_prices"].rows = StartupAlignment.table
                     /\ DerivedFields \subseteq cache["events_with_prices"].columns
                ELSE /\ cache["events_with_prices"] = event_loaded
                     /\ cache["events_with_prices"] = cache["event_data"]
       /\ (StartupAlignment.outcome # "returned" /\ ~load_fails)
             => DOMAIN cache = CacheKeys

\* an alignment that raised at startup, the three keys cached and the event
\* table standing in for the aligned events
C26_Witness ==
    /\ Started
    /\ StartupAlignment.outcome = "EventIntegrationError"
    /\ DOMAIN cache = CacheKeys
    /\ cache["events_with_prices"] = cache["event_data"]

----------------------------------------------------------------------------
(* The aligner's effect on its arguments *)

StartupKeepsEventData ==
    (Started /\ DOMAIN cache = CacheKeys)
    => /\ cache["price_data"] = price_loaded
       /\ cache["event_data"] = event_loaded
       /\ cache["event_data"].columns \cap DerivedFields = {}
       /\ StartupAlignment.outcome = "returned"
             => DerivedFields \subseteq cache["events_with_prices"].columns

----------------------------------------------------------------------------
(* Properties of an empty selection *)

NoCategoricalFilter == \A column \in {"event_type", "impact_type", "severity"} : ~Supplied(column)

\* C30 as stated: when valid date bounds select no row, price-data and
\* statistics answer 400 ValidationError, and events without categorical
\* filter answers 200 with an empty events list and count 0.
C30_EmptySelection ==
    /\ (/\ Replied("/api/price-data") \/ Replied("/api/statistics")
        /\ HasKey("price_data")
        /\ ValidBounds
        /\ CachedPricesInRange = << >>)
       => IsError(400, "ValidationError")
    /\ (/\ Replied("/api/events")
        /\ HasKey("event_data")
        /\ ValidBounds
        /\ NoCategoricalFilter
        /\ CachedEventsInRange = << >>)
       => /\ response.http = 200
          /\ response.body.data.events = << >>
          /\ response.body.data.count = 0

----------------------------------------------------------------------------
(* src/data_loader.py: preprocess_data, one call with arbitrary arguments  *)

FAdd(a, b) == FSub(a, FSub(Num(0), b))

\* DataFrame.ffill(): a missing price takes the last price present before it
RECURSIVE ffill(_)
ffill(rows) ==
    IF rows = << >> THEN << >>
    ELSE LET front == ffill(SubSeq(rows, 1, Len(rows) - 1))
             last == rows[Len(rows)]
         IN Append(front,
                   IF IsNaN(last.price) /\ front # << >>
                   THEN [last EXCEPT !.price = front[Len(front)].price]
                   ELSE last)

\* DataFrame.bfill(): a missing price takes the first price present after it
RECURSIVE bfill(_)
bfill(rows) ==
    IF rows = << >> THEN << >>
    ELSE LET back == bfill(Tail(rows))
             first == Head(rows)
         IN <<IF IsNaN(first.price) /\ back # << >>
              THEN [first EXCEPT !.price = back[1].price]
              ELSE first>> \o back

\* DataFrame.interpolate(method="time"): a missing price between two present
\* ones lies on the line through them over the index dates; after the last
\* present price it repeats that price; before the first it stays missing
interpolate_time(rows) ==
    [i \in 1 .. Len(rows) |->
        LET before == {j \in 1 .. i - 1 : ~IsNaN(rows[j].price)}
            after == {k \in i + 1 .. Len(rows) : ~IsNaN(rows[k].price)}
            j == CHOOSE x \in before : \A y \in before : y <= x
            k == CHOOSE x \in after : \A y \in after : x <= y
        IN IF ~IsNaN(rows[i].price) \/ before = {} THEN rows[i]
           ELSE IF after = {} THEN [rows[i] EXCEPT !.price = rows[j].price]
           ELSE [rows[i] EXCEPT !.price =
                   FAdd(rows[j].price,
                        FDiv(FMul(FSub(rows[k].price, rows[j].price),
                                  Num(rows[i].date - rows[j].date)),
                             Num(rows[k].date - rows[j].date)))]]

\* DataFrame.dropna(): the rows with a price
dropna(rows) ==
    LET HasPrice(r) == ~IsNaN(r.price)
    IN SelectSeq(rows, HasPrice)

\* line 239
valid_methods == <<"forward_fill", "backward_fill", "interpolate", "drop">>

\* a bug that falls back to forward_fill for a name it does not know
preprocess_data_defaulting(df, handle_missing) ==
    IF df.isNone THEN Raise("DataValidationError", <<"Input DataFrame is None">>)
    ELSE IF df.rows = << >>
    THEN Raise("DataValidationError", <<"Input DataFrame is empty">>)
    ELSE IF handle_missing = "interpolate" /\ ~df.datetimeIndex
    THEN Raise("DataValidationError", <<"Error during preprocessing">>)
    ELSE LET df_processed ==
                 CASE handle_missing = "backward_fill" -> bfill(df.rows)
                   [] handle_missing = "interpolate" -> interpolate_time(df.rows)
                   [] handle_missing = "drop" -> dropna(df.rows)
                   [] OTHER -> ffill(df.rows)
         IN IF df_processed = << >>
            THEN Raise("DataValidationError", <<"Error during preprocessing">>)
            ELSE Ok([df EXCEPT !.rows = df_processed])

\* lines 210-262: the table is validated first (lines 234-237), then the
\* policy name (lines 239-241); an exception inside the try block, the one
\* raised for an empty result included, leaves as DataValidationError
preprocess_data(df, handle_missing) ==
    IF df.isNone THEN Raise("DataValidationError", <<"Input DataFrame is None">>)
    ELSE IF df.rows = << >>
    THEN Raise("DataValidationError", <<"Input DataFrame is empty">>)
    ELSE IF ~InSeq(handle_missing, valid_methods)
    THEN Raise("ValueError", <<"Invalid handle_missing method", handle_missing>>)
    ELSE IF handle_missing = "interpolate" /\ ~df.datetimeIndex
    THEN Raise("DataValidationError", <<"Error during preprocessing">>)
    ELSE LET df_processed ==
                 CASE handle_missing = "forward_fill" -> ffill(df.rows)
                   [] handle_missing = "backward_fill" -> bfill(df.rows)
                   [] handle_missing = "interpolate" -> interpolate_time(df.rows)
                   [] handle_missing = "drop" -> dropna(df.rows)
         IN IF df_processed = << >>
            THEN Raise("DataValidationError", <<"Error during preprocessing">>)
            ELSE Ok([df EXCEPT !.rows = df_processed])

\* the four policy names, an alias pandas users know and an unknown name
PolicyNames == {"forward_fill", "backward_fill", "interpolate", "drop", "ffill", "mean"}

InitPreprocess ==
    /\ AlignerIdle
    /\ ServerOff
    /\ analysis_pc = "call"
    /\ analysis_input \in [fn : {"preprocess_data"},
                           df : PriceTables({Num(1), Num(3), NaN}),
                           handle_missing : PolicyNames]
    /\ analysis_output = << >>
    /\ step_log = << >>

PreprocessCall ==
    /\ analysis_pc = "call"
    /\ analysis_input.fn = "preprocess_data"
    /\ analysis_output' = preprocess_data(analysis_input.df, analysis_input.handle_missing)
    /\ analysis_pc' = "done"
    /\ UNCHANGED <<analysis_input, step_log>>
    /\ UNCHANGED <<alignVars, apiVars, fileVars, filterVars>>

SpecPreprocess == InitPreprocess /\ [][PreprocessCall]_vars

----------------------------------------------------------------------------
(* Properties of preprocess_data *)

PreprocessDone == analysis_pc = "done" /\ analysis_input.fn = "preprocess_data"

KnownPolicy ==
    analysis_input.handle_missing
        \in {"forward_fill", "backward_fill", "interpolate", "drop"}

UsableTable == ~analysis_input.df.isNone /\ analysis_input.df.rows # << >>

PreprocessReturned == analysis_output.raise = "none"

HasPriceAt(rows, i) == rows[i].price[2] # 0

SameDates(in, out) ==
    /\ Len(out) = Len(in)
    /\ \A i \in 1 .. Len(in) : out[i].date = in[i].date

\* every row has the last price present at or before it, if there is one
ForwardFilled(in, out) ==
    /\ SameDates(in, out)
    /\ \A i \in 1 .. Len(in) :
          LET seen == {j \in 1 .. i : HasPriceAt(in, j)}
          IN IF seen = {} THEN ~HasPriceAt(out, i)
             ELSE \E j \in seen : /\ \A y \in seen : y <= j
                                  /\ out[i].price = in[j].price

\* every row has the first price present at or after it, if there is one
BackwardFilled(in, out) ==
    /\ SameDates(in, out)
    /\ \A i \in 1 .. Len(in) :
          LET ahead == {j \in i .. Len(in) : HasPriceAt(in, j)}
          IN IF ahead = {} THEN ~HasPriceAt(out, i)
             ELSE \E j \in ahead : /\ \A y \in ahead : j <= y
                                   /\ out[i].price = in[j].price

\* p lies on the line through (d1, p1) and (d2, p2) at date d
OnLine(p, d, d1, p1, d2, p2) ==
    /\ p[2] > 0
    /\ (p[1] * p1[2] - p1[1] * p[2]) * (d2 - d1) * p2[2] * p1[2]
          = (p2[1] * p1[2] - p1[1] * p2[2]) * (d - d1) * p[2] * p1[2]

\* prices present are kept; a gap between two present prices is filled in
\* proportion to the dates; a gap after the last present price repeats it; a
\* gap before the first stays
TimeInterpolated(in, out) ==
    /\ SameDates(in, out)
    /\ \A i \in 1 .. Len(in) :
          LET seen == {j \in 1 .. i : HasPriceAt(in, j)}
              ahead == {j \in i .. Len(in) : HasPriceAt(in, j)}
          IN IF seen = {} THEN ~HasPriceAt(out, i)
             ELSE \E j \in seen :
                    /\ \A y \in seen : y <= j
                    /\ IF ahead = {} THEN out[i].price = in[j].price
                       ELSE \E k \in ahead :
                              /\ \A y \in ahead : k <= y
                              /\ IF j = k THEN out[i].price = in[i].price
                                 ELSE OnLine(out[i].price, in[i].date,
                                             in[j].date, in[j].price,
                                             in[k].date, in[k].price)

\* the rows with a price, in order, and no other
Dropped(in, out) ==
    LET kept == {j \in 1 .. Len(in) : HasPriceAt(in, j)}
    IN /\ Len(out) = Cardinality(kept)
       /\ \A i \in 1 .. Len(out) :
             \E j \in kept : /\ Cardinality({y \in kept : y < j}) = i - 1
                             /\ out[i] = in[j]

SelectedPolicyApplied ==
    LET in == analysis_input.df.rows
        out == analysis_output.value.rows
    IN CASE analysis_input.handle_missing = "forward_fill" -> ForwardFilled(in, out)
         [] analysis_input.handle_missing = "backward_fill" -> BackwardFilled(in, out)
         [] analysis_input.handle_missing = "interpolate" -> TimeInterpolated(in, out)
         [] analysis_input.handle_missing = "drop" -> Dropped(in, out)
         [] OTHER -> FALSE

----------------------------------------------------------------------------
(* src/event_integration.py: calculate_event_impact_statistics, one call   *)

\* Series.unique(): the values in order of first appearance, NaN among them
RECURSIVE unique(_, _)
unique(rows, column) ==
    IF rows = << >> THEN << >>
    ELSE LET front == unique(SubSeq(rows, 1, Len(rows) - 1), column)
             v == rows[Len(rows)][column]
         IN IF InSeq(v, front) THEN front ELSE Append(front, v)

\* event_df[event_df[column] == v]: NaN equals no cell, itself included
RowsEqualTo(rows, column, v) ==
    LET Eq(r) == v # CategoryNaN /\ r[column] = v
    IN SelectSeq(rows, Eq)

\* one dict of stats_list
CategoryStats(label, rows) ==
    LET pct == [i \in 1 .. Len(rows) |-> rows[i].price_change_pct]
    IN [category |-> label,
        count |-> Len(rows),
        mean_price_change_pct |-> SeriesMean(pct),
        median_price_change_pct |-> SeriesMedian(pct),
        std_price_change_pct |-> SeriesStd(pct),
        max_price_change_pct |-> SeriesMax(pct),
        min_price_change_pct |-> SeriesMin(pct)]

\* the rows of one grouping column, one per value of unique()
GroupStats(events, column, prefix) ==
    IF column \notin events.columns THEN << >>
    ELSE LET values == unique(events.rows, column)
         IN [i \in 1 .. Len(values) |->
                CategoryStats(<<prefix, values[i]>>,
                              RowsEqualTo(events.rows, column, values[i]))]

\* lines 189-248
calculate_event_impact_statistics(events) ==
    IF "price_change_pct" \notin events.columns THEN << >>
    ELSE <<CategoryStats(<<"Overall">>, events.rows)>>
         \o GroupStats(events, "event_type", "Type: ")
         \o GroupStats(events, "impact_type", "Impact: ")

\* aligned events: a type and an impact type, either possibly missing, and a
\* price_change_pct that is null when the event could not be aligned
StatEventRows ==
    [event_type : {"Economic", "OPEC", CategoryNaN},
     impact_type : {"Supply Shock", CategoryNaN},
     price_change_pct : {Num(2), Num(4), NaN}]

\* aligned collections, an unaligned one (no derived column) and one without
\* the event_type column
StatEventTables ==
    LET seqs == UNION {[1 .. n -> StatEventRows] : n \in 0 .. MaxStatEvents}
        all == {"event_type", "impact_type", "price_change_pct"}
    IN {[columns |-> all, rows |-> r] : r \in seqs}
       \cup {[columns |-> all \ {c}, rows |-> r] :
                c \in {"price_change_pct", "event_type"},
                r \in {q \in seqs : Len(q) = 1}}

InitImpactStatistics ==
    /\ AlignerIdle
    /\ ServerOff
    /\ analysis_pc = "call"
    /\ analysis_input \in [fn : {"calculate_event_impact_statistics"},
                           event_df : StatEventTables]
    /\ analysis_output = << >>
    /\ step_log = << >>

ImpactStatisticsCall ==
    /\ analysis_pc = "call"
    /\ analysis_input.fn = "calculate_event_impact_statistics"
    /\ analysis_output' = calculate_event_impact_statistics(analysis_input.event_df)
    /\ analysis_pc' = "done"
    /\ UNCHANGED <<analysis_input, step_log>>
    /\ UNCHANGED <<alignVars, apiVars, fileVars, filterVars>>

SpecImpactStatistics == InitImpactStatistics /\ [][ImpactStatisticsCall]_vars

----------------------------------------------------------------------------
(* Properties of calculate_event_impact_statistics *)

ImpactStatisticsDone ==
    analysis_pc = "done" /\ analysis_input.fn = "calculate_event_impact_statistics"

\* the input is an aligned collection with both grouping columns
AlignedCollection ==
    /\ analysis_input.event_df.rows # << >>
    /\ {"event_type", "impact_type", "price_change_pct"} \subseteq analysis_input.event_df.columns

\* the events of the input whose column has value v
MembersOf(column, v) ==
    {i \in 1 .. Len(analysis_input.event_df.rows) :
        analysis_input.event_df.rows[i][column] = v}

\* the labels the summary must hold: Overall and one per value that at least
\* one event has
ExpectedLabels ==
    {<<"Overall">>}
    \cup {<<"Type: ", v>> : v \in {"Economic", "OPEC"} \cap
                                 {analysis_input.event_df.rows[i].event_type :
                                     i \in 1 .. Len(analysis_input.event_df.rows)}}
    \cup {<<"Impact: ", v>> : v \in {"Supply Shock"} \cap
                                   {analysis_input.event_df.rows[i].impact_type :
                                       i \in 1 .. Len(analysis_input.event_df.rows)}}

\* C22 as stated: given an aligned event collection, the summary holds one
\* Overall row and one row per event_type value and per impact_type value
\* with at least one member event, each once; no row has count 0.
C22_NoEmptyCategoryRow ==
    (ImpactStatisticsDone /\ AlignedCollection)
    => /\ \A i \in 1 .. Len(analysis_output) : analysis_output[i].count > 0
       /\ {analysis_output[i].category : i \in 1 .. Len(analysis_output)} = ExpectedLabels
       /\ \A i, j \in 1 .. Len(analysis_output) :
             analysis_output[i].category = analysis_output[j].category => i = j

----------------------------------------------------------------------------
(* src/eda.py: test_stationarity, one call.  The two statistics are        *)
(* computed by statsmodels; what the function does with them is modelled,  *)
(* each test being given by its p-value in hundredths or by its failure    *)

MinObservations == 10

TestFails == <<"raises", 0>>

PValue(p) == <<"p", p>>

\* a bug that reads the KPSS p-value as the ADF one is read
test_stationarity_kpss_as_adf(series, alpha, adfuller, kpss) ==
    IF series.isNone THEN Raise("EDAError", <<"Series is None">>)
    ELSE IF ~series.isSeries THEN Raise("EDAError", <<"Expected Series">>)
    ELSE IF ~(0 < alpha /\ alpha < 100)
    THEN Raise("ValueError", <<"Alpha must be between 0 and 1", alpha>>)
    ELSE IF series.observations < MinObservations
    THEN Raise("EDAError", <<"Insufficient data for stationarity testing">>)
    ELSE
    LET adf == IF adfuller = TestFails THEN << >>
               ELSE [p_value |-> adfuller[2], is_stationary |-> adfuller[2] < alpha]
        kp == IF kpss = TestFails THEN << >>
              ELSE [p_value |-> kpss[2], is_stationary |-> kpss[2] < alpha]
        conclusion ==
            IF adf # << >> /\ kp # << >>
            THEN IF adf.is_stationary /\ kp.is_stationary THEN "Stationary"
                 ELSE IF ~adf.is_stationary /\ ~kp.is_stationary THEN "Non-stationary"
                 ELSE "Inconclusive - conflicting results"
            ELSE "Unable to determine"
    IN Ok([adf |-> adf, kpss |-> kp, conclusion |-> conclusion])

\* lines 181-260; None is modelled by << >>, which is falsy as None is
test_stationarity(series, alpha, adfuller, kpss) ==
    IF series.isNone THEN Raise("EDAError", <<"Series is None">>)
    ELSE IF ~series.isSeries THEN Raise("EDAError", <<"Expected Series">>)
    ELSE IF ~(0 < alpha /\ alpha < 100)
    THEN Raise("ValueError", <<"Alpha must be between 0 and 1", alpha>>)
    ELSE IF series.observations < MinObservations
    THEN Raise("EDAError", <<"Insufficient data for stationarity testing">>)
    ELSE
    LET adf == IF adfuller = TestFails THEN << >>
               ELSE [p_value |-> adfuller[2], is_stationary |-> adfuller[2] < alpha]
        kp == IF kpss = TestFails THEN << >>
              ELSE [p_value |-> kpss[2], is_stationary |-> kpss[2] > alpha]
        conclusion ==
            IF adf # << >> /\ kp # << >>
            THEN IF adf.is_stationary /\ kp.is_stationary THEN "Stationary"
                 ELSE IF ~adf.is_stationary /\ ~kp.is_stationary THEN "Non-stationary"
                 ELSE "Inconclusive - conflicting results"
            ELSE "Unable to determine"
    IN Ok([adf |-> adf, kpss |-> kp, conclusion |-> conclusion])

\* None, an object that is not a Series, and series with that many values
\* once the missing ones are dropped
SeriesArguments ==
    {[isNone |-> TRUE, isSeries |-> FALSE, observations |-> 0],
     [isNone |-> FALSE, isSeries |-> FALSE, observations |-> 0]}
    \cup {[isNone |-> FALSE, isSeries |-> TRUE, observations |-> n] :
             n \in {0, MinObservations - 1, MinObservations, MinObservations + 1}}

\* significance levels in hundredths: 0.05 and 0.10, and the invalid 0 and 1
AlphaArguments == {0, 5, 10, 100}

\* p-values in hundredths, below, at and above the levels, or a failed test
TestOutcomes == {TestFails} \cup {PValue(p) : p \in {1, 5, 10}}

InitStationarity ==
    /\ AlignerIdle
    /\ ServerOff
    /\ analysis_pc = "call"
    /\ analysis_input \in [fn : {"test_stationarity"},
                           series : SeriesArguments,
                           alpha : AlphaArguments,
                           adfuller : TestOutcomes,
                           kpss : TestOutcomes]
    /\ analysis_output = << >>
    /\ step_log = << >>

StationarityCall ==
    /\ analysis_pc = "call"
    /\ analysis_input.fn = "test_stationarity"
    /\ analysis_output' = test_stationarity(analysis_input.series, analysis_input.alpha,
                                            analysis_input.adfuller, analysis_input.kpss)
    /\ analysis_pc' = "done"
    /\ UNCHANGED <<analysis_input, step_log>>
    /\ UNCHANGED <<alignVars, apiVars, fileVars, filterVars>>

SpecStationarity == InitStationarity /\ [][StationarityCall]_vars

----------------------------------------------------------------------------
(* Properties of test_stationarity *)

StationarityReturned ==
    /\ analysis_pc = "done"
    /\ analysis_input.fn = "test_stationarity"
    /\ analysis_output.raise = "none"

BothTestsRan ==
    analysis_input.adfuller[1] = "p" /\ analysis_input.kpss[1] = "p"

\* ADF rejects the unit root: its p-value is below alpha
AdfReportsStationary == analysis_input.adfuller[2] < analysis_input.alpha

\* KPSS does not reject stationarity: its p-value is above alpha
KpssReportsStationary == analysis_input.kpss[2] > analysis_input.alpha

\* the text of the conclusion the spec calls Inconclusive
Inconclusive == "Inconclusive - conflicting results"

\* C23: the conclusion of test_stationarity is Stationary iff both tests
\* report stationary, Non-stationary iff both report non-stationary,
\* Inconclusive iff they disagree, Unable to determine iff at least one test
\* produced no result; it is always one of the four.
C23_StationarityTruthTable ==
    StationarityReturned
    => LET conclusion == analysis_output.value.conclusion
       IN /\ conclusion \in {"Stationary", "Non-stationary", Inconclusive,
                             "Unable to determine"}
          /\ conclusion = "Unable to determine" <=> ~BothTestsRan
          /\ conclusion = "Stationary"
                <=> (BothTestsRan /\ AdfReportsStationary /\ KpssReportsStationary)
          /\ conclusion = "Non-stationary"
                <=> (BothTestsRan /\ ~AdfReportsStationary /\ ~KpssReportsStationary)
          /\ conclusion = Inconclusive
                <=> (BothTestsRan /\ AdfReportsStationary # KpssReportsStationary)

\* both p-values equal to alpha: ADF does not reject, KPSS rejects, and the
\* conclusion is Non-stationary
C23_Witness ==
    /\ StationarityReturned
    /\ BothTestsRan
    /\ analysis_input.adfuller[2] = analysis_input.alpha
    /\ analysis_input.kpss[2] = analysis_input.alpha
    /\ analysis_output.value.conclusion = "Non-stationary"

----------------------------------------------------------------------------
(* src/main.py: run_analysis_pipeline, one step at a time.  A step calls a *)
(* function of the package; what the pipeline does with the call's outcome *)
(* is modelled, the outcome being "returned" or an exception class that    *)
(* the called function can raise                                           *)

NoPath == <<"None">>

\* results[key] = value
Put(results, key, value) ==
    [k \in DOMAIN results \cup {key} |-> IF k = key THEN value ELSE results[k]]

\* lines 232-235: the exception classes the first outer clause names
CustomErrors ==
    {"DataLoadingError", "DataValidationError", "EDAError", "EventIntegrationError"}

\* lines 232-239: both outer clauses store the error and return results
OuterHandler(results, exception) ==
    Put(results, "error",
        IF exception \in CustomErrors THEN <<exception>>
        ELSE <<"Unexpected error", exception>>)

\* what each called function can end in
Outcomes(step) ==
    CASE step = "load_oil_price_data" -> {"returned", "DataLoadingError"}
      [] step = "validate_data" -> {"returned", "DataValidationError"}
      [] step = "preprocess_data" -> {"returned", "DataValidationError"}
      [] step = "descriptive_statistics" -> {"returned", "Exception"}
      [] step = "trend_analysis" -> {"returned", "EDAError", "ValueError"}
      [] step = "test_stationarity" -> {"returned", "EDAError", "Exception"}
      [] step = "volatility_analysis" -> {"returned", "Exception"}
      [] step = "load_event_data" -> {"returned", "DataLoadingError"}
      [] step = "align_events_with_prices" ->
            {"returned", "EventIntegrationError", "Exception"}
      [] step = "calculate_event_impact_statistics" -> {"returned", "Exception"}

\* a bug: the handler of the trend analysis re-raises EDAError
PropagatesEDAError(step, exception) ==
    CASE step \in {"load_oil_price_data", "validate_data", "preprocess_data"} -> TRUE
      [] step = "load_event_data" -> exception # "DataLoadingError"
      [] step = "trend_analysis" -> exception = "EDAError"
      [] OTHER -> FALSE

\* whether the handlers around the step let the exception reach the outer
\* handler: steps 1-3 re-raise (lines 104-147), step 5 catches only
\* DataLoadingError when it loads the events (lines 198-201), the others
\* log and go on
Propagates(step, exception) ==
    CASE step \in {"load_oil_price_data", "validate_data", "preprocess_data"} -> TRUE
      [] step = "load_event_data" -> exception # "DataLoadingError"
      [] OTHER -> FALSE

\* the key under which the step stores what its call returned
ResultKey(step) ==
    CASE step = "load_oil_price_data" -> "price_data"
      [] step = "validate_data" -> "validation_report"
      [] step = "preprocess_data" -> "price_data_clean"
      [] step = "descriptive_statistics" -> "descriptive_statistics"
      [] step = "trend_analysis" -> "trend_analysis"
      [] step = "test_stationarity" -> "stationarity_test"
      [] step = "volatility_analysis" -> "volatility_analysis"
      [] step = "load_event_data" -> "event_data"
      [] step = "align_events_with_prices" -> "events_with_prices"
      [] step = "calculate_event_impact_statistics" -> "event_impact_stats"

\* a bug: the impact statistics are computed in a try block of their own
IntegrationResultsSeparateTry(results, aligned, summarised) ==
    LET r == IF aligned = "returned"
             THEN Put(results, "events_with_prices", <<"events_with_prices">>)
             ELSE results
    IN IF summarised = "returned"
       THEN Put(r, "event_impact_stats", <<"event_impact_stats">>)
       ELSE r

\* lines 203-222: alignment and impact statistics share one try block, so
\* the statistics are computed only after the aligned events were stored
IntegrationResults(results, aligned, summarised) ==
    IF aligned # "returned" THEN results
    ELSE LET r == Put(results, "events_with_prices", <<"events_with_prices">>)
         IN IF summarised = "returned"
            THEN Put(r, "event_impact_stats", <<"event_impact_stats">>)
            ELSE r

InitPipeline ==
    /\ AlignerIdle
    /\ ServerOff
    /\ analysis_pc = "load_oil_price_data"
    /\ analysis_input \in [fn : {"run_analysis_pipeline"},
                           price_file_path : {NoPath, <<"data/raw/brent_prices.csv">>}]
    /\ analysis_output = << >>
    /\ step_log = << >>

\* one step of the pipeline: the call, its handlers and, when the exception
\* is re-raised, the outer handler and the return
RunStep(step, next) ==
    /\ analysis_pc = step
    /\ \E o \in Outcomes(step) :
          /\ step_log' = Append(step_log, [step |-> step, outcome |-> o])
          /\ IF o = "returned"
             THEN /\ analysis_output' = Put(analysis_output, ResultKey(step), <<ResultKey(step)>>)
                  /\ analysis_pc' = next
             ELSE IF Propagates(step, o)
             THEN /\ analysis_output' = OuterHandler(analysis_output, o)
                  /\ analysis_pc' = "returned"
             ELSE /\ analysis_output' = analysis_output
                  /\ analysis_pc' = IF step = "load_event_data" THEN "returned" ELSE next
    /\ UNCHANGED analysis_input
    /\ UNCHANGED <<alignVars, apiVars, fileVars, filterVars>>

\* lines 92-111: without a path the pipeline returns a new dict at once
LoadPriceData ==
    \/ /\ analysis_pc = "load_oil_price_data"
       /\ analysis_input.price_file_path = NoPath
       /\ analysis_output' = [error |-> <<"No price data file provided">>]
       /\ analysis_pc' = "returned"
       /\ UNCHANGED <<analysis_input, step_log>>
       /\ UNCHANGED <<alignVars, apiVars, fileVars, filterVars>>
    \/ /\ analysis_input.price_file_path # NoPath
       /\ RunStep("load_oil_price_data", "validate_data")

\* lines 118-129
ValidatePriceData == RunStep("validate_data", "preprocess_data")

\* lines 136-145
PreprocessPriceData == RunStep("preprocess_data", "descriptive_statistics")

\* lines 153-158
DescriptiveStatistics == RunStep("descriptive_statistics", "trend_analysis")

\* lines 161-168
TrendAnalysis == RunStep("trend_analysis", "test_stationarity")

\* lines 171-179
StationarityTesting == RunStep("test_stationarity", "volatility_analysis")

\* lines 182-187
VolatilityAnalysis == RunStep("volatility_analysis", "load_event_data")

\* lines 194-201: without events the pipeline returns what it has
LoadEventData == RunStep("load_event_data", "align_events_with_prices")

\* lines 203-230
IntegrateEvents ==
    /\ analysis_pc = "align_events_with_prices"
    /\ \E a \in Outcomes("align_events_with_prices"),
          c \in Outcomes("calculate_event_impact_statistics") :
          /\ step_log' =
                IF a = "returned"
                THEN step_log \o <<[step |-> "align_events_with_prices", outcome |-> a],
                                   [step |-> "calculate_event_impact_statistics",
                                    outcome |-> c]>>
                ELSE Append(step_log, [step |-> "align_events_with_prices", outcome |-> a])
          /\ analysis_output' = IntegrationResults(analysis_output, a, c)
    /\ analysis_pc' = "returned"
    /\ UNCHANGED analysis_input
    /\ UNCHANGED <<alignVars, apiVars, fileVars, filterVars>>

NextPipeline ==
    \/ LoadPriceData
    \/ ValidatePriceData
    \/ PreprocessPriceData
    \/ DescriptiveStatistics
    \/ TrendAnalysis
    \/ StationarityTesting
    \/ VolatilityAnalysis
    \/ LoadEventData
    \/ IntegrateEvents

SpecPipeline == InitPipeline /\ [][NextPipeline]_vars

PipelineReturned == analysis_pc = "returned"

ResultKeys == IF analysis_output = << >> THEN {} ELSE DOMAIN analysis_output

Ran(step) == \E i \in DOMAIN step_log : step_log[i].step = step

Failed(step) ==
    \E i \in DOMAIN step_log :
        step_log[i].step = step /\ step_log[i].outcome # "returned"

PriceSteps == {"load_oil_price_data", "validate_data", "preprocess_data"}

EDASteps ==
    {"descriptive_statistics", "trend_analysis", "test_stationarity",
     "volatility_analysis"}

\* the position of a step in the order of the source
StepOrder ==
    <<"load_oil_price_data", "validate_data", "preprocess_data",
      "descriptive_statistics", "trend_analysis", "test_stationarity",
      "volatility_analysis", "load_event_data", "align_events_with_prices",
      "calculate_event_impact_statistics">>

PositionOf(step) == CHOOSE i \in DOMAIN StepOrder : StepOrder[i] = step

\* the calls were made in the order of the source, none twice
LoggedInOrder ==
    \A i, j \in DOMAIN step_log :
        i < j => PositionOf(step_log[i].step) < PositionOf(step_log[j].step)

Implies(later, earlier) == later \in ResultKeys => earlier \in ResultKeys

\* C28: the keys of the result respect the step order: validation_report
\* implies price_data, price_data_clean implies validation_report, every EDA
\* key and event_data imply price_data_clean, events_with_prices implies
\* event_data, event_impact_stats implies events_with_prices.
C28_KeysRespectStepOrder ==
    /\ Implies("validation_report", "price_data")
    /\ Implies("price_data_clean", "validation_report")
    /\ \A k \in {"descriptive_statistics", "trend_analysis", "stationarity_test",
                  "volatility_analysis", "event_data"} :
          Implies(k, "price_data_clean")
    /\ Implies("events_with_prices", "event_data")
    /\ Implies("event_impact_stats", "events_with_prices")

\* all of step 5 stored its keys while some EDA key is missing
C28_Witness ==
    /\ PipelineReturned
    /\ "event_impact_stats" \in ResultKeys
    /\ "trend_analysis" \notin ResultKeys
    /\ "stationarity_test" \in ResultKeys

====
